---- MODULE Spec2Model ----
(***************************************************************************)
(* A state-machine model of the Multichat server (Complex_Server.py): the  *)
(* per-connection handler stack, the account registry, the channel         *)
(* registry, the channel server and the channel-admin console.             *)
(*                                                                         *)
(* Every worker thread (Stack.run) is a process whose position is          *)
(* (stack[c], pc[c]).  An action is one step of a worker between two       *)
(* points where other workers can interleave: the code run for one input   *)
(* line, or one lock-protected section of a handler that spans several.    *)
(* Python dicts are modelled as insertion-ordered sequences of [k, v]      *)
(* records, Python lists as sequences.                                     *)
(***************************************************************************)
EXTENDS Integers, Sequences, FiniteSets, TLC

(***************************************************************************)
(* Bounds of the model.                                                    *)
(***************************************************************************)
NClients == 2
NNames == 2
MaxAccounts == 3
MaxChannels == 2
MaxLines == 1
MaxKicked == 1
MaxMessages == 1
MaxBuffered == 3

\* one-byte reads in a row
MaxShort == 2

\* plain lines said while their broadcasts are followed send by send
MaxBroadcasts == 3

(***************************************************************************)
(* Program constants.                                                      *)
(***************************************************************************)
builtin_buffer_limit == 10000
MAX_FORGIVENESS == 2
DefaultReplaySize == 10
NoSize == -1

NameSeq == <<"a", "b", "c", "d", "e">>
Names == {NameSeq[i] : i \in 1..NNames}
ChanNames == {"x", "y"}
Words == {"", "p", "p q"}
Sizes == {NoSize, 0, 1}
Clients == 1..NClients
NoName == "<none>"
NoChannelName == "<None>"
EVENT == "EVENT"

\* lines a client can type at a name prompt besides a plain name: nothing, a name
\* after a blank, two words
Blank == " "
TypedLines == {"", " y", "a b"}

\* the characters of the lines of the model (every other line is one letter)
Chars(w) ==
    CASE w = "" -> <<>>
      [] w = "p q" -> <<"p", Blank, "q">>
      [] w = "a b" -> <<"a", Blank, "b">>
      [] w = " y" -> <<Blank, "y">>
      [] OTHER -> <<w>>

\* len(w.split()): the number of maximal runs of characters that are not blank
TokenCount(w) ==
    Cardinality({i \in 1..Len(Chars(w)) :
                    Chars(w)[i] # Blank /\ (i = 1 \/ Chars(w)[i - 1] = Blank)})

\* the line is empty or holds a whitespace character
NotAName(w) == w = "" \/ \E i \in 1..Len(Chars(w)) : Chars(w)[i] = Blank

(***************************************************************************)
(* Python list and dict helpers.                                           *)
(***************************************************************************)
Range(s) == {s[i] : i \in 1..Len(s)}

InSeq(x, s) == \E i \in 1..Len(s) : s[i] = x

FirstIndex(x, s) == CHOOSE i \in 1..Len(s) : s[i] = x /\ \A j \in 1..(i-1) : s[j] # x

RemoveAt(s, i) == SubSeq(s, 1, i-1) \o SubSeq(s, i+1, Len(s))

\* list.remove(x): drops the first occurrence (x is known to be in s)
ListRemove(s, x) == IF InSeq(x, s) THEN RemoveAt(s, FirstIndex(x, s)) ELSE s

\* while x in s: s.remove(x)
RemoveAll(s, x) == SelectSeq(s, LAMBDA y : y # x)

DictHas(d, k) == \E i \in 1..Len(d) : d[i].k = k

DictIndex(d, k) == CHOOSE i \in 1..Len(d) : d[i].k = k

DictGet(d, k) == d[DictIndex(d, k)].v

DictDel(d, k) == IF DictHas(d, k) THEN RemoveAt(d, DictIndex(d, k)) ELSE d

DictPut(d, k, v) ==
    IF DictHas(d, k) THEN [d EXCEPT ![DictIndex(d, k)].v = v]
    ELSE Append(d, [k |-> k, v |-> v])

DictKeys(d) == {d[i].k : i \in 1..Len(d)}

DictValues(d) == [i \in 1..Len(d) |-> d[i].v]

\* dict.get(k, [])
DictGetOrEmpty(d, k) == IF DictHas(d, k) THEN DictGet(d, k) ELSE <<>>

\* Client.buffer, empty as Client.__init__ leaves it: the lengths of the complete
\* lines it holds (terminator included) and of the unterminated bytes after them
NoBytes == [lines |-> <<>>, rest |-> 0]

VARIABLES
    loop,          \* Server.loop
    srvClients,    \* Server.clients
    BLOCKED,       \* BanFilter.BLOCKED
    ACCOUNTS,      \* OutsideMenu.ACCOUNTS: dict name -> Account (index into acct)
    acct,          \* the Account objects ever created
    CHANNEL_NAMES, \* InsideMenu.CHANNEL_NAMES: dict name -> index
    NEXT_CHANNEL,  \* InsideMenu.NEXT_CHANNEL
    chan,          \* the ChannelServer objects CHANNEL_1, CHANNEL_2, ...
    closed,        \* Client.closed
    cname,         \* Client.name (NoName: attribute not set)
    caccount,      \* Client.account (0: attribute not set)
    passed,        \* BanFilter.passed of the connection's root handler
    stack,         \* Stack.stack: the handlers of each worker
    pc,            \* where the worker is inside the top handler
    cur,           \* the channel of the worker's ChannelServer/ChannelAdmin handler
    ret,           \* the value ChannelServer.handle is about to return
    exiting,       \* the worker is unwinding (SystemExit or an uncaught error)
    pend,          \* locals of the running handler kept between two steps
    exitCause,     \* what started the unwinding of each worker
    nLines,        \* number of add_line calls so far
    client_buffer, \* Client.buffer: the bytes received and not yet returned by recv
    order,         \* the lines in the order their broadcasts took the channel's lock
    sent,          \* the lines written to each client's socket by a broadcast, in order
    writing,       \* the threads inside socket.sendall of each client's socket
    held,          \* the data locks each worker holds, in the order it acquired them
    peer           \* what the socket of each client does in socket.recv from now on

srvVars == <<loop, srvClients, BLOCKED>>
accVars == <<ACCOUNTS, acct>>
chVars == <<CHANNEL_NAMES, NEXT_CHANNEL, chan>>
cliVars == <<closed, cname, caccount, passed>>
stkVars == <<stack, pc, cur, ret, exiting, pend, exitCause>>
obsVars == <<nLines, client_buffer, order, sent, writing, held, peer>>
vars == <<srvVars, accVars, chVars, cliVars, stkVars, obsVars>>

NoPend ==
    [line |-> "", password |-> "", name |-> NoName, acct |-> 0, buffer |-> <<>>,
     client_array |-> <<>>, accounts |-> <<>>, level |-> 0, channel_line |-> 0]

Top(c) == IF Len(stack[c]) = 0 THEN "none" ELSE stack[c][Len(stack[c])]

\* Account(administrator)
NewAccount(administrator) ==
    [administrator |-> administrator, online |-> FALSE, password |-> "",
     contacts |-> <<>>, messages |-> <<>>, forgiven |-> 0, client |-> 0]

\* ChannelServer(channel_name, owner)
NewChannel(channel_name, owner) ==
    [channel_name |-> channel_name, owner |-> owner, password |-> "",
     buffer |-> <<>>, buffer_size |-> NoSize, replay_size |-> DefaultReplaySize,
     status |-> "start", connected_clients |-> <<>>, muted_to_muter |-> <<>>,
     kicked |-> <<>>, banned |-> <<>>, admin_lock |-> FALSE, admin_name |-> ""]

\* client.address[0] of the connections, in the order the server accepts them
AddressSeq == <<"10.0.0.1", "10.0.0.2", "10.0.0.3", "10.0.0.4">>

AddressOf(c) == AddressSeq[c]

\* socket.gethostbyaddr(client.address[0]): the primary host name and the aliases
HostOf(c) == IF c = 1 THEN "alpha" ELSE "Bravo"

AliasesOf(c) == IF c = 1 THEN <<>> ELSE <<"Guest">>

\* str.lower on the host names and aliases above
lower(name) ==
    IF name = "Bravo" THEN "bravo"
    ELSE IF name = "Guest" THEN "guest"
    ELSE name

\* the three tests of BanFilter.handle under its lock
Blocked(c) ==
    \/ InSeq(lower(HostOf(c)), BLOCKED)
    \/ \E i \in 1..Len(AliasesOf(c)) : InSeq(lower(AliasesOf(c)[i]), BLOCKED)
    \/ InSeq(AddressOf(c), BLOCKED)

(***************************************************************************)
(* Stack.run: push, pop and the unwinding of a worker.                     *)
(***************************************************************************)
\* where a worker stands after Stack.run calls handle() of handler h: a handler
\* whose handle() only prints and enters its command loop waits for a command
EnterPc(h) == IF h \in {"BanFilter", "ChannelServer", "ChannelAdmin", "MarkVShaney"}
              THEN "enter" ELSE "cmd"

\* self.stack.append(handler)
Push(c, h) ==
    /\ stack' = [stack EXCEPT ![c] = Append(@, h)]
    /\ pc' = [pc EXCEPT ![c] = EnterPc(h)]

\* self.stack.pop()
Pop(c) ==
    /\ stack' = [stack EXCEPT ![c] = SubSeq(@, 1, Len(@) - 1)]
    /\ pc' = [pc EXCEPT ![c] = IF Len(stack[c]) = 1 THEN "finally"
                                 ELSE EnterPc(stack[c][Len(stack[c]) - 1])]

\* SystemExit or an uncaught exception leaves handle() of a handler that has no
\* cleanup of its own: Stack.run's finally clause is next
Raise(c, cause) ==
    /\ pc' = [pc EXCEPT ![c] = "finally"]
    /\ exiting' = [exiting EXCEPT ![c] = TRUE]
    /\ exitCause' = [exitCause EXCEPT ![c] = cause]

\* the command loop of handler h is waiting for a line of client c
AtCmd(c, h) == Top(c) = h /\ pc[c] = "cmd" /\ ~closed[c]

(***************************************************************************)
(* OutsideMenu: the account registry.                                      *)
(***************************************************************************)
\* the Account objects still registered (cls.ACCOUNTS.values())
Registered == {ACCOUNTS[i].v : i \in 1..Len(ACCOUNTS)}

\* OutsideMenu.account_exists(name)
account_exists(name) == DictHas(ACCOUNTS, name)

\* OutsideMenu.is_administrator(name); the callers test it only where the name exists
is_administrator(name) == acct[DictGet(ACCOUNTS, name)].administrator

\* the muted_to_muter loop of clean_name_from_channels from position i on: the dict
\* is iterated while it is mutated, so the iteration that follows a `del` raises
\* RuntimeError (dictionary changed size during iteration) and the rest is left as is
RECURSIVE CleanMuters(_, _, _)
CleanMuters(m, name, i) ==
    IF i > Len(m) THEN [m |-> m, raised |-> FALSE]
    ELSE IF InSeq(name, m[i].v)
         THEN LET muter == ListRemove(m[i].v, name) IN
              IF muter = <<>> THEN [m |-> RemoveAt(m, i), raised |-> TRUE]
              ELSE CleanMuters([m EXCEPT ![i].v = muter], name, i + 1)
         ELSE CleanMuters(m, name, i + 1)

\* the body of clean_name_from_channels for one channel
CleanChannel(ch, name) ==
    LET r == CleanMuters(DictDel(ch.muted_to_muter, name), name, 1) IN
    [ch |-> [ch EXCEPT !.muted_to_muter = r.m, !.banned = RemoveAll(@, name)],
     raised |-> r.raised]

\* InsideMenu.get_channels(): the channel objects that still have a name bound
get_channels == DictValues(CHANNEL_NAMES)

RECURSIVE CleanChannels(_, _, _, _)
CleanChannels(chs, ids, name, i) ==
    IF i > Len(ids) THEN [chan |-> chs, raised |-> FALSE]
    ELSE LET r == CleanChannel(chs[ids[i]], name)
             next == [chs EXCEPT ![ids[i]] = r.ch] IN
         IF r.raised THEN [chan |-> next, raised |-> TRUE]
         ELSE CleanChannels(next, ids, name, i + 1)

\* OutsideMenu.clean_name_from_channels(name)
clean_name_from_channels(name) == CleanChannels(chan, get_channels, name, 1)

\* OutsideMenu.delete_account(name): the registry and the contact lists afterwards
DeletedACCOUNTS(name) == DictDel(ACCOUNTS, name)

DeletedAcct(name) ==
    IF ~DictHas(ACCOUNTS, name) THEN acct
    ELSE LET rest == {DeletedACCOUNTS(name)[i].v : i \in 1..Len(DeletedACCOUNTS(name))} IN
         [i \in DOMAIN acct |->
            IF i \in rest THEN [acct[i] EXCEPT !.contacts = ListRemove(@, name)]
            ELSE acct[i]]

\* OutsideMenu.delete_account(name) as one step; `raised` tells whether the final
\* clean_name_from_channels left by RuntimeError
delete_account(name) ==
    /\ ACCOUNTS' = DeletedACCOUNTS(name)
    /\ acct' = DeletedAcct(name)
    /\ chan' = clean_name_from_channels(name).chan

DeleteRaises(name) == clean_name_from_channels(name).raised

\* OutsideMenu.login_account(account, name), on the Account objects `a`
LoggedIn(a, id, c) == [a EXCEPT ![id].online = TRUE, ![id].client = c]

login_account(c, a, id, name) ==
    /\ acct' = LoggedIn(a, id, c)
    /\ cname' = [cname EXCEPT ![c] = name]
    /\ caccount' = [caccount EXCEPT ![c] = id]
    /\ Push(c, "InsideMenu")

\* a login that never looks at the online flag
LoginRefusedNever(id) == FALSE

\* the test of do_login that refuses an account that is already online
LoginRefused(id) == acct[id].online

\* Server.run: accept a connection and start its worker
Accept(c) ==
    /\ pc[c] = "idle"
    /\ loop
    /\ srvClients' = Append(srvClients, c)
    /\ stack' = [stack EXCEPT ![c] = <<"BanFilter">>]
    /\ pc' = [pc EXCEPT ![c] = "enter"]
    /\ UNCHANGED <<loop, BLOCKED, accVars, chVars, cliVars, cur, ret, exiting, pend,
                   exitCause, obsVars>>

\* BanFilter.handle
BanFilterHandle(c) ==
    /\ Top(c) = "BanFilter" /\ pc[c] = "enter" /\ ~closed[c]
    /\ IF passed[c] \/ Blocked(c)
       THEN /\ closed' = [closed EXCEPT ![c] = TRUE]
            /\ Raise(c, "own")
            /\ UNCHANGED <<stack, passed>>
       ELSE /\ passed' = [passed EXCEPT ![c] = TRUE]
            /\ Push(c, "OutsideMenu")
            /\ UNCHANGED <<closed, exiting, exitCause>>
    /\ UNCHANGED <<srvVars, accVars, chVars, cname, caccount, cur, ret, pend, obsVars>>

\* OutsideMenu.do_login
DoLogin(c, name, word) ==
    /\ AtCmd(c, "OutsideMenu")
    /\ IF DictHas(ACCOUNTS, name) /\ word = acct[DictGet(ACCOUNTS, name)].password
          /\ ~LoginRefused(DictGet(ACCOUNTS, name))
       THEN login_account(c, acct, DictGet(ACCOUNTS, name), name)
       ELSE UNCHANGED <<acct, cname, caccount, stack, pc>>
    /\ UNCHANGED <<srvVars, ACCOUNTS, chVars, closed, passed, cur, ret, exiting, pend,
                   exitCause, obsVars>>

\* the administrator flag taken from the registry after the name was stored
FirstAccountLate(accounts, name) == DictPut(accounts, name, 0) = <<>>

\* do_register: Account(not bool(cls.ACCOUNTS)), evaluated before the name is stored
FirstAccount(accounts, name) == accounts = <<>>

\* OutsideMenu.do_register up to the password prompt: the account is inserted with
\* an empty password and the registry lock is released
DoRegister(c, name) ==
    /\ AtCmd(c, "OutsideMenu")
    /\ Len(acct) < MaxAccounts
    /\ IF TokenCount(name) > 1 \/ DictHas(ACCOUNTS, name)
       THEN UNCHANGED <<ACCOUNTS, acct, pc, pend>>
       ELSE /\ acct' = Append(acct, NewAccount(FirstAccount(ACCOUNTS, name)))
            /\ ACCOUNTS' = DictPut(ACCOUNTS, name, Len(acct) + 1)
            /\ pc' = [pc EXCEPT ![c] = "register_password"]
            /\ pend' = [pend EXCEPT ![c] = [NoPend EXCEPT !.name = name,
                                                          !.acct = Len(acct) + 1]]
    /\ UNCHANGED <<srvVars, chVars, cliVars, stack, cur, ret, exiting, exitCause, obsVars>>

\* OutsideMenu.do_register from the password on
RegisterPassword(c, word) ==
    /\ Top(c) = "OutsideMenu" /\ pc[c] = "register_password" /\ ~closed[c]
    /\ pend' = [pend EXCEPT ![c] = NoPend]
    /\ IF TokenCount(word) # 1
       THEN IF DictHas(ACCOUNTS, pend[c].name)
            THEN /\ ACCOUNTS' = DictDel(ACCOUNTS, pend[c].name)
                 /\ pc' = [pc EXCEPT ![c] = "cmd"]
                 /\ UNCHANGED <<acct, cname, caccount, stack, exiting, exitCause>>
            ELSE \* del cls.ACCOUNTS[name] raises KeyError
                 /\ Raise(c, "error")
                 /\ UNCHANGED <<ACCOUNTS, acct, cname, caccount, stack>>
       ELSE /\ login_account(c, [acct EXCEPT ![pend[c].acct].password = word],
                             pend[c].acct, pend[c].name)
            /\ UNCHANGED <<ACCOUNTS, exiting, exitCause>>
    /\ UNCHANGED <<srvVars, chVars, closed, passed, cur, ret, obsVars>>

\* `exit` in the outside menu (or terms of service refused): the menu pops and the
\* ban filter runs a second time
OutsideExit(c) ==
    /\ AtCmd(c, "OutsideMenu")
    /\ Pop(c)
    /\ UNCHANGED <<srvVars, accVars, chVars, cliVars, cur, ret, exiting, pend,
                   exitCause, obsVars>>

(***************************************************************************)
(* InsideMenu.                                                             *)
(***************************************************************************)
\* InsideMenu.handle once command_loop has returned None: log out and pop
Logout(c) ==
    /\ acct' = [acct EXCEPT ![caccount[c]].online = FALSE]
    /\ caccount' = [caccount EXCEPT ![c] = 0]
    /\ cname' = [cname EXCEPT ![c] = NoName]
    /\ Pop(c)

InsideExit(c) ==
    /\ AtCmd(c, "InsideMenu")
    /\ Logout(c)
    /\ UNCHANGED <<srvVars, ACCOUNTS, chVars, closed, passed, cur, ret, exiting, pend,
                   exitCause, obsVars>>

\* InsideMenu.do_admin
InsideAdmin(c) ==
    /\ AtCmd(c, "InsideMenu")
    /\ IF acct[caccount[c]].administrator
       THEN /\ Push(c, "AdminConsole")
            /\ UNCHANGED <<BLOCKED, accVars, chan, closed, cname, caccount, exiting,
                           exitCause>>
       ELSE IF acct[caccount[c]].forgiven >= MAX_FORGIVENESS
            THEN /\ BLOCKED' = Append(BLOCKED, AddressOf(c))
                 /\ delete_account(cname[c])
                 /\ IF DeleteRaises(cname[c])
                    THEN Raise(c, "error") /\ UNCHANGED closed
                    ELSE Raise(c, "own") /\ closed' = [closed EXCEPT ![c] = TRUE]
                 /\ UNCHANGED <<stack, cname, caccount>>
            ELSE /\ acct' = [acct EXCEPT ![caccount[c]].forgiven = @ + 1,
                                         ![caccount[c]].online = FALSE]
                 /\ caccount' = [caccount EXCEPT ![c] = 0]
                 /\ cname' = [cname EXCEPT ![c] = NoName]
                 /\ Pop(c)
                 /\ UNCHANGED <<BLOCKED, ACCOUNTS, chan, closed, exiting, exitCause>>
    /\ UNCHANGED <<loop, srvClients, CHANNEL_NAMES, NEXT_CHANNEL, passed, cur, ret, pend,
                   obsVars>>

\* InsideMenu.do_contacts, do_options: push a sub-screen
InsidePush(c, h) ==
    /\ AtCmd(c, "InsideMenu")
    /\ Push(c, h)
    /\ UNCHANGED <<srvVars, accVars, chVars, cliVars, cur, ret, exiting, pend,
                   exitCause, obsVars>>

\* Handler.do_exit in a sub-screen of the inside menu
SubExit(c) ==
    /\ \E h \in {"AdminConsole", "AccountOptions", "ContactManager"} : AtCmd(c, h)
    /\ Pop(c)
    /\ UNCHANGED <<srvVars, accVars, chVars, cliVars, cur, ret, exiting, pend,
                   exitCause, obsVars>>


(***************************************************************************)
(* Account.force_disconnect, AdminConsole, AccountOptions, ContactManager. *)
(***************************************************************************)
\* Account.force_disconnect reaches client.close(True)
ForceTarget(id) == IF acct[id].online THEN acct[id].client ELSE 0

IsSelfNever(c, name) == FALSE

\* the test `name == self.client.name` of account_remove and account_edit, and the
\* filter of get_account_name
IsSelf(c, name) == name = cname[c]

\* AdminConsole.get_account_name: the numbered list the caller picks from
account_list(c) ==
    SelectSeq([i \in 1..Len(ACCOUNTS) |-> ACCOUNTS[i].k], LAMBDA name : ~IsSelf(c, name))

\* AdminConsole.disconnect_and_remove(name), called in the worker of client c
disconnect_and_remove(c, name) ==
    IF ~DictHas(ACCOUNTS, name)
    THEN UNCHANGED <<accVars, chan, closed, pc, exiting, exitCause>>
    ELSE LET t == ForceTarget(DictGet(ACCOUNTS, name)) IN
         IF t # 0 /\ closed[t]
         THEN \* close() of a closed client: sys.exit() in the caller's thread
              /\ Raise(c, "force")
              /\ UNCHANGED <<accVars, chan, closed>>
         ELSE /\ closed' = [x \in Clients |-> IF x = t THEN TRUE ELSE closed[x]]
              /\ delete_account(name)
              /\ IF DeleteRaises(name) THEN Raise(c, "error")
                 ELSE UNCHANGED <<pc, exiting, exitCause>>

\* AdminConsole.account_remove with the name as argument; the caller's own name is
\* refused
AccountRemove(c, name) ==
    /\ AtCmd(c, "AdminConsole")
    /\ ~IsSelf(c, name)
    /\ disconnect_and_remove(c, name)
    /\ UNCHANGED <<srvVars, CHANNEL_NAMES, NEXT_CHANNEL, cname, caccount, passed, stack,
                   cur, ret, pend, obsVars>>

\* AdminConsole.account_remove without argument: the name is picked by its number
AccountRemovePick(c, index) ==
    /\ AtCmd(c, "AdminConsole")
    /\ index \in 1..Len(account_list(c))
    /\ disconnect_and_remove(c, account_list(c)[index])
    /\ UNCHANGED <<srvVars, CHANNEL_NAMES, NEXT_CHANNEL, cname, caccount, passed, stack,
                   cur, ret, pend, obsVars>>

\* the end of AdminConsole.account_edit: AccountEditor(client, name, account) is
\* returned when the name has an account
OpenEditor(c, name) ==
    /\ IF DictHas(ACCOUNTS, name)
       THEN /\ Push(c, "AccountEditor")
            /\ pend' = [pend EXCEPT ![c] = [NoPend EXCEPT !.name = name,
                                                          !.acct = DictGet(ACCOUNTS, name)]]
       ELSE UNCHANGED <<stack, pc, pend>>
    /\ UNCHANGED <<srvVars, accVars, chVars, cliVars, cur, ret, exiting, exitCause,
                   obsVars>>

\* AdminConsole.account_edit with the name as argument
AccountEdit(c, name) ==
    /\ AtCmd(c, "AdminConsole")
    /\ ~IsSelf(c, name)
    /\ OpenEditor(c, name)

\* AdminConsole.account_edit without argument
AccountEditPick(c, index) ==
    /\ AtCmd(c, "AdminConsole")
    /\ index \in 1..Len(account_list(c))
    /\ OpenEditor(c, account_list(c)[index])

\* AccountEditor.do_edit with attribute `admin`
EditorAdmin(c) ==
    /\ AtCmd(c, "AccountEditor")
    /\ acct' = [acct EXCEPT ![pend[c].acct].administrator = ~@]
    /\ UNCHANGED <<srvVars, ACCOUNTS, chVars, cliVars, stkVars, obsVars>>

\* Handler.do_exit in the account editor
EditorExit(c) ==
    /\ AtCmd(c, "AccountEditor")
    /\ Pop(c)
    /\ pend' = [pend EXCEPT ![c] = NoPend]
    /\ UNCHANGED <<srvVars, accVars, chVars, cliVars, cur, ret, exiting, exitCause,
                   obsVars>>

\* AccountOptions.do_delete_account (confirmed)
OptionsDeleteAccount(c) ==
    /\ AtCmd(c, "AccountOptions")
    /\ delete_account(cname[c])
    /\ IF DeleteRaises(cname[c])
       THEN Raise(c, "error") /\ UNCHANGED closed
       ELSE Raise(c, "own") /\ closed' = [closed EXCEPT ![c] = TRUE]
    /\ UNCHANGED <<srvVars, CHANNEL_NAMES, NEXT_CHANNEL, cname, caccount, passed, stack,
                   cur, ret, pend, obsVars>>

\* ContactManager.do_add -> Account.add_contact
ContactsAdd(c, name) ==
    /\ AtCmd(c, "ContactManager")
    /\ IF ~InSeq(name, acct[caccount[c]].contacts) /\ account_exists(name)
       THEN acct' = [acct EXCEPT ![caccount[c]].contacts = Append(@, name)]
       ELSE UNCHANGED acct
    /\ UNCHANGED <<srvVars, ACCOUNTS, chVars, cliVars, stkVars, obsVars>>

\* ContactManager.do_remove -> Account.remove_contact
ContactsRemove(c, name) ==
    /\ AtCmd(c, "ContactManager")
    /\ acct' = [acct EXCEPT ![caccount[c]].contacts = ListRemove(@, name)]
    /\ UNCHANGED <<srvVars, ACCOUNTS, chVars, cliVars, stkVars, obsVars>>

\* AdminConsole.shutdown = enum('server, users, admin, all')
shutdown == [server |-> 0, users |-> 1, admin |-> 2, all |-> 3]

Levels == {shutdown.server, shutdown.users, shutdown.admin, shutdown.all}

\* AdminConsole.do_shutdown up to the end of the critical section of shutdown_server:
\* the first caller clears Server.loop and takes the tuple of the connected clients
DoShutdown(c, level) ==
    /\ AtCmd(c, "AdminConsole")
    /\ IF loop
       THEN /\ loop' = FALSE
            /\ pend' = [pend EXCEPT ![c] = [NoPend EXCEPT !.client_array = srvClients,
                                                          !.level = level]]
            /\ pc' = [pc EXCEPT ![c] = "sleepers"]
       ELSE /\ UNCHANGED loop
            /\ IF level > shutdown.server
               THEN /\ pend' = [pend EXCEPT ![c] = [NoPend EXCEPT
                                                       !.accounts = DictValues(ACCOUNTS),
                                                       !.level = level]]
                    /\ pc' = [pc EXCEPT ![c] = "accounts"]
               ELSE UNCHANGED <<pend, pc>>
    /\ UNCHANGED <<srvClients, BLOCKED, accVars, chVars, cliVars, stack, cur, ret, exiting,
                   exitCause, obsVars>>

\* AdminConsole.disconnect_clients: one turn of the loop over client_array; after the
\* last one the count is printed and, above the `server` level, disconnect_accounts
\* takes its list of accounts
DisconnectClients(c) ==
    /\ Top(c) = "AdminConsole" /\ pc[c] = "sleepers"
    /\ LET client_array == pend[c].client_array IN
       IF client_array # <<>>
       THEN LET client == Head(client_array) IN
            IF cname[client] # NoName
            THEN /\ pend' = [pend EXCEPT ![c].client_array = Tail(client_array)]
                 /\ UNCHANGED <<closed, pc, exiting, exitCause>>
            ELSE IF closed[client]
                 THEN \* client.print on a closed client: sys.exit() in the caller's thread
                      /\ Raise(c, "force")
                      /\ pend' = [pend EXCEPT ![c] = NoPend]
                      /\ UNCHANGED closed
                 ELSE /\ closed' = [closed EXCEPT ![client] = TRUE]
                      /\ pend' = [pend EXCEPT ![c].client_array = Tail(client_array)]
                      /\ UNCHANGED <<pc, exiting, exitCause>>
       ELSE /\ UNCHANGED closed
            /\ IF closed[c]
               THEN Raise(c, "own") /\ pend' = [pend EXCEPT ![c] = NoPend]
               ELSE /\ UNCHANGED <<exiting, exitCause>>
                    /\ IF pend[c].level > shutdown.server
                       THEN /\ pend' = [pend EXCEPT ![c].accounts = DictValues(ACCOUNTS)]
                            /\ pc' = [pc EXCEPT ![c] = "accounts"]
                       ELSE /\ pend' = [pend EXCEPT ![c] = NoPend]
                            /\ pc' = [pc EXCEPT ![c] = "cmd"]
    /\ UNCHANGED <<srvVars, accVars, chVars, cname, caccount, passed, stack, cur, ret,
                   obsVars>>

\* the test of disconnect_accounts that selects the accounts to disconnect
ShutdownMatches(c, id, level) ==
    id # caccount[c] /\ (level > shutdown.users \/ ~acct[id].administrator)

\* AdminConsole.disconnect_accounts: one turn of the loop over the accounts
\* (Account.broadcast, then Account.force_disconnect); after the last one the
\* `all` level closes the caller's own connection
DisconnectAccounts(c) ==
    /\ Top(c) = "AdminConsole" /\ pc[c] = "accounts"
    /\ LET accounts == pend[c].accounts IN
       IF accounts # <<>>
       THEN LET client == ForceTarget(Head(accounts)) IN
            IF ~ShutdownMatches(c, Head(accounts), pend[c].level) \/ client = 0
            THEN /\ pend' = [pend EXCEPT ![c].accounts = Tail(accounts)]
                 /\ UNCHANGED <<closed, pc, exiting, exitCause>>
            ELSE IF closed[client]
                 THEN /\ Raise(c, "force")
                      /\ pend' = [pend EXCEPT ![c] = NoPend]
                      /\ UNCHANGED closed
                 ELSE /\ closed' = [closed EXCEPT ![client] = TRUE]
                      /\ pend' = [pend EXCEPT ![c].accounts = Tail(accounts)]
                      /\ UNCHANGED <<pc, exiting, exitCause>>
       ELSE /\ pend' = [pend EXCEPT ![c] = NoPend]
            /\ IF closed[c]
               THEN Raise(c, "own") /\ UNCHANGED closed
               ELSE IF pend[c].level = shutdown.all
                    THEN Raise(c, "own") /\ closed' = [closed EXCEPT ![c] = TRUE]
                    ELSE /\ pc' = [pc EXCEPT ![c] = "cmd"]
                         /\ UNCHANGED <<closed, exiting, exitCause>>
    /\ UNCHANGED <<srvVars, accVars, chVars, cname, caccount, passed, stack, cur, ret,
                   obsVars>>

(***************************************************************************)
(* InsideMenu.do_channel and the channel server.                           *)
(***************************************************************************)
\* self.connected_clients[ident] = client (one entry per worker thread)
Connected(clients, c) == IF InSeq(c, clients) THEN clients ELSE Append(clients, c)

\* ChannelServer.privileged
privileged(c, ch) == acct[caccount[c]].administrator \/ cname[c] = chan[ch].owner

\* ChannelServer.is_protected(name) for a name that has an account
is_protected(ch, name) == chan[ch].owner = name \/ is_administrator(name)

\* is_protected returns None (after printing "does not exist")
NotProtectable(ch, name) == chan[ch].owner # name /\ ~account_exists(name)

\* the effective capacity computed by add_line
Capacity(buffer_size) ==
    IF buffer_size = NoSize THEN builtin_buffer_limit
    ELSE IF buffer_size < builtin_buffer_limit THEN buffer_size ELSE builtin_buffer_limit

\* ChannelServer.add_line: the buffer afterwards
add_line(ch, name, line) ==
    LET buffer_size == Capacity(chan[ch].buffer_size)
        appended == Append(chan[ch].buffer, [source |-> name, message |-> line]) IN
    IF buffer_size = 0 THEN chan[ch].buffer
    ELSE IF Len(appended) > buffer_size
         THEN SubSeq(appended, Len(appended) - buffer_size + 1, Len(appended))
         ELSE appended

\* the muter list ChannelServer.broadcast filters with
BroadcastMuter(ch, source) == DictGetOrEmpty(chan[ch].muted_to_muter, source)

\* the `accept` filter of ChannelServer.broadcast
BroadcastAccept(c, ch, source, echo, d) ==
    /\ ~InSeq(cname[d], chan[ch].kicked)
    /\ ~InSeq(cname[d], BroadcastMuter(ch, source))
    /\ (echo \/ d # c)

\* the destinations of a broadcast, in the order of connected_clients
Destinations(c, ch, source, echo) ==
    SelectSeq(chan[ch].connected_clients,
              LAMBDA d : BroadcastAccept(c, ch, source, echo, d))

\* Client.send raises SystemExit in the calling thread when the client is closed
SendRaises(d) == closed[d]

\* the first destination whose send raises (0: none)
FirstRaising(dests) ==
    IF \E i \in 1..Len(dests) : SendRaises(dests[i])
    THEN CHOOSE i \in 1..Len(dests) :
            SendRaises(dests[i]) /\ \A j \in 1..(i - 1) : ~SendRaises(dests[j])
    ELSE 0

\* ChannelServer.broadcast by client c: who got the line, and whether a send raised
broadcast(c, ch, kind, source, echo) ==
    LET dests == Destinations(c, ch, source, echo)
        k == FirstRaising(dests) IN
    [kind |-> kind, user |-> cname[c], origin |-> c,
     to |-> IF k = 0 THEN Range(dests) ELSE {dests[i] : i \in 1..(k - 1)},
     clients |-> chan[ch].connected_clients,
     kicked |-> chan[ch].kicked,
     mutedBy |-> Range(DictGetOrEmpty(chan[ch].muted_to_muter, cname[c])),
     aborted |-> k # 0, culprit |-> IF k = 0 THEN 0 ELSE dests[k]]

\* InsideMenu.do_channel: a name of several words or an empty one is refused
DoChannel(c, name) ==
    /\ AtCmd(c, "InsideMenu")
    /\ IF TokenCount(name) > 1 \/ name = ""
       THEN UNCHANGED <<chVars, stack, pc, cur>>
       ELSE /\ IF DictHas(CHANNEL_NAMES, name)
               THEN /\ cur' = [cur EXCEPT ![c] = DictGet(CHANNEL_NAMES, name)]
                    /\ chan' = [chan EXCEPT
                                   ![DictGet(CHANNEL_NAMES, name)].connected_clients =
                                        Connected(@, c)]
                    /\ UNCHANGED <<CHANNEL_NAMES, NEXT_CHANNEL>>
               ELSE /\ NEXT_CHANNEL <= MaxChannels
                    /\ cur' = [cur EXCEPT ![c] = NEXT_CHANNEL]
                    /\ chan' = Append(chan, [NewChannel(name, cname[c])
                                                EXCEPT !.connected_clients = <<c>>])
                    /\ CHANNEL_NAMES' = DictPut(CHANNEL_NAMES, name, NEXT_CHANNEL)
                    /\ NEXT_CHANNEL' = NEXT_CHANNEL + 1
            /\ Push(c, "ChannelServer")
    /\ UNCHANGED <<srvVars, accVars, cliVars, ret, exiting, pend, exitCause, obsVars>>

\* a print or input by client c's own worker raises SystemExit when c is closed
OwnIO(c) ==
    /\ exiting' = [exiting EXCEPT ![c] = @ \/ closed[c]]
    /\ exitCause' = [exitCause EXCEPT ![c] = IF ~exiting[c] /\ closed[c] THEN "own" ELSE @]

\* a broadcast by client c's worker raised SystemExit in that worker
SendIO(c, b) ==
    /\ exiting' = [exiting EXCEPT ![c] = @ \/ b.aborted]
    /\ exitCause' = [exitCause EXCEPT ![c] =
                        IF exiting[c] \/ ~b.aborted THEN @
                        ELSE IF b.culprit = c THEN "own" ELSE "peer"]

\* the status setup_channel's finally clause sets
SetupFinished == "ready"

\* ChannelServer.dispatch up to the point where it returns, starts the setup
\* dialogue or calls run_channel
Dispatch(c) ==
    LET ch == cur[c]
        status0 == chan[ch].status
        status == IF status0 = "reset" /\ cname[c] = chan[ch].owner THEN "start"
                  ELSE status0 IN
    /\ Top(c) = "ChannelServer" /\ pc[c] = "enter"
    /\ ret' = [ret EXCEPT ![c] = "None"]
    /\ CASE status0 = "final" ->
              /\ pc' = [pc EXCEPT ![c] = "purge"]
              /\ UNCHANGED <<chan, exiting, exitCause>>
         [] status = "start" ->
              /\ chan' = [chan EXCEPT ![ch].status = "setup"]
              /\ pc' = [pc EXCEPT ![c] = "setup"]
              /\ UNCHANGED <<exiting, exitCause>>
         [] status \in {"setup", "reset"} ->
              /\ OwnIO(c)
              /\ pc' = [pc EXCEPT ![c] = "purge"]
              /\ UNCHANGED chan
         [] status = "ready" ->
              /\ pc' = [pc EXCEPT ![c] = "run_channel"]
              /\ UNCHANGED <<chan, exiting, exitCause>>
    /\ UNCHANGED <<srvVars, accVars, CHANNEL_NAMES, NEXT_CHANNEL, cliVars, stack, cur,
                   pend, obsVars>>

\* ChannelServer.setup_channel (the three questions) and the finally clause of
\* dispatch that follows it
SetupChannel(c, password, buffer_size, replay_size) ==
    LET ch == cur[c] IN
    /\ Top(c) = "ChannelServer" /\ pc[c] = "setup"
    /\ IF closed[c]
       THEN /\ chan' = [chan EXCEPT ![ch].status = SetupFinished]
            /\ OwnIO(c)
            /\ pc' = [pc EXCEPT ![c] = "purge"]
       ELSE /\ chan' = [chan EXCEPT ![ch].password = IF password = "" THEN @ ELSE password,
                                    ![ch].buffer_size = buffer_size,
                                    ![ch].replay_size = replay_size,
                                    ![ch].status = SetupFinished]
            /\ pc' = [pc EXCEPT ![c] = "run_channel"]
            /\ UNCHANGED <<exiting, exitCause>>
    /\ UNCHANGED <<srvVars, accVars, CHANNEL_NAMES, NEXT_CHANNEL, cliVars, stack, cur,
                   ret, pend, obsVars>>

\* ChannelServer.run_channel: the ban test and authenticate up to its prompt
RunChannel(c) ==
    LET ch == cur[c] IN
    /\ Top(c) = "ChannelServer" /\ pc[c] = "run_channel"
    /\ IF InSeq(cname[c], chan[ch].banned)
       THEN /\ OwnIO(c)
            /\ pc' = [pc EXCEPT ![c] = "purge"]
            /\ UNCHANGED pend
       ELSE IF chan[ch].password = "" \/ privileged(c, ch)
            THEN /\ pc' = [pc EXCEPT ![c] = "join"]
                 /\ UNCHANGED <<pend, exiting, exitCause>>
            ELSE /\ OwnIO(c)
                 /\ pc' = [pc EXCEPT ![c] = IF closed[c] THEN "purge" ELSE "auth"]
                 /\ pend' = [pend EXCEPT ![c] = [NoPend EXCEPT !.password =
                                                        chan[ch].password]]
    /\ UNCHANGED <<srvVars, accVars, chVars, cliVars, stack, cur, ret, obsVars>>

\* ChannelServer.authenticate: the answer to "Password to connect:"
Authenticate(c, word) ==
    /\ Top(c) = "ChannelServer" /\ pc[c] = "auth" /\ ~closed[c]
    /\ pc' = [pc EXCEPT ![c] = IF word = pend[c].password THEN "join" ELSE "purge"]
    /\ pend' = [pend EXCEPT ![c] = NoPend]
    /\ UNCHANGED <<srvVars, accVars, chVars, cliVars, stack, cur, ret, exiting,
                   exitCause, obsVars>>

\* run_channel after authentication: replay_buffer, show_status and the start of
\* message_loop (the join EVENT)
Join(c) ==
    LET ch == cur[c]
        b == broadcast(c, ch, "join", EVENT, FALSE) IN
    /\ Top(c) = "ChannelServer" /\ pc[c] = "join"
    /\ IF closed[c]
       THEN /\ OwnIO(c)
            /\ pc' = [pc EXCEPT ![c] = "purge"]
       ELSE /\ pc' = [pc EXCEPT ![c] = IF b.aborted THEN "leave" ELSE "loop"]
            /\ SendIO(c, b)
    /\ UNCHANGED <<srvVars, accVars, chVars, cliVars, stack, cur, ret, pend, obsVars>>

\* a Python slice s[-n:] with n > 0
PyTail(s, n) == SubSeq(s, (IF Len(s) - n < 0 THEN 0 ELSE Len(s) - n) + 1, Len(s))

\* a replay that ignores replay_size
replay_all(ch) == chan[ch].buffer

\* ChannelServer.replay_buffer: the lines it takes from the buffer under the lock
replay_buffer(ch) ==
    IF chan[ch].replay_size = NoSize THEN chan[ch].buffer
    ELSE IF chan[ch].replay_size > 0 THEN PyTail(chan[ch].buffer, chan[ch].replay_size)
    ELSE <<>>

\* run_channel after authentication, first part: replay_buffer (the snapshot is the
\* local `buffer`, echoed line by line to the client)
ReplayBuffer(c) ==
    /\ Top(c) = "ChannelServer" /\ pc[c] = "join"
    /\ IF closed[c] /\ replay_buffer(cur[c]) # <<>>
       THEN /\ OwnIO(c)
            /\ pc' = [pc EXCEPT ![c] = "purge"]
            /\ UNCHANGED pend
       ELSE /\ pend' = [pend EXCEPT ![c] = [NoPend EXCEPT !.buffer = replay_buffer(cur[c])]]
            /\ pc' = [pc EXCEPT ![c] = "status"]
            /\ UNCHANGED <<exiting, exitCause>>
    /\ UNCHANGED <<srvVars, accVars, chVars, cliVars, stack, cur, ret, obsVars>>

\* run_channel after authentication, second part: show_status (the connected-count
\* line) and the start of message_loop (the join EVENT)
ShowStatus(c) ==
    LET b == broadcast(c, cur[c], "join", EVENT, FALSE) IN
    /\ Top(c) = "ChannelServer" /\ pc[c] = "status"
    /\ pend' = [pend EXCEPT ![c] = NoPend]
    /\ IF closed[c]
       THEN /\ OwnIO(c)
            /\ pc' = [pc EXCEPT ![c] = "purge"]
       ELSE /\ pc' = [pc EXCEPT ![c] = IF b.aborted THEN "leave" ELSE "loop"]
            /\ SendIO(c, b)
    /\ UNCHANGED <<srvVars, accVars, chVars, cliVars, stack, cur, ret, obsVars>>

(***************************************************************************)
(* ChannelServer.message_loop: one action per kind of line.                *)
(***************************************************************************)
\* message_loop has read a line of client c and found c's name not in `kicked`
InLoop(c) ==
    /\ Top(c) = "ChannelServer" /\ pc[c] = "loop" /\ ~closed[c]
    /\ ~InSeq(cname[c], chan[cur[c]].kicked)

\* message_loop: the name is in `kicked` when the next line is read
ChanKickedOut(c) ==
    /\ Top(c) = "ChannelServer" /\ pc[c] = "loop" /\ ~closed[c]
    /\ InSeq(cname[c], chan[cur[c]].kicked)
    /\ pc' = [pc EXCEPT ![c] = "leave"]
    /\ ret' = [ret EXCEPT ![c] = "None"]
    /\ UNCHANGED <<srvVars, accVars, chVars, cliVars, stack, cur, exiting, pend,
                   exitCause, obsVars>>

\* message_loop: a plain line is appended to the buffer (add_line)
Say(c, limit) ==
    /\ InLoop(c)
    /\ nLines < limit
    /\ chan' = [chan EXCEPT ![cur[c]].buffer = add_line(cur[c], cname[c], nLines + 1)]
    /\ nLines' = nLines + 1
    /\ UNCHANGED <<client_buffer, order, sent, writing, held, peer>>
    /\ pend' = [pend EXCEPT ![c] = [NoPend EXCEPT !.name = cname[c],
                                                  !.channel_line = nLines + 1]]
    /\ pc' = [pc EXCEPT ![c] = "bcast"]
    /\ UNCHANGED <<srvVars, accVars, CHANNEL_NAMES, NEXT_CHANNEL, cliVars, stack, cur,
                   ret, exiting, exitCause>>

ChanSay(c) == Say(c, MaxLines)

\* ChannelServer.broadcast of a plain line, its critical section: the clients, the
\* muters of the source and the kicked names are read, and the filter is fixed
BroadcastLock(c) ==
    /\ Top(c) = "ChannelServer" /\ pc[c] = "bcast"
    /\ pend' = [pend EXCEPT ![c].client_array =
                                 Destinations(c, cur[c], pend[c].name, TRUE)]
    /\ order' = Append(order, pend[c].channel_line)
    /\ pc' = [pc EXCEPT ![c] = "send"]
    /\ UNCHANGED <<srvVars, accVars, chVars, cliVars, stack, cur, ret, exiting, exitCause,
                   nLines, client_buffer, sent, writing, held, peer>>

\* ChannelServer.broadcast, one turn of the loop that follows the critical section:
\* channel_line.echo(destination), which raises SystemExit for a closed destination
BroadcastSend(c) ==
    /\ Top(c) = "ChannelServer" /\ pc[c] = "send"
    /\ LET clients == pend[c].client_array IN
       IF clients = <<>>
       THEN /\ pc' = [pc EXCEPT ![c] = "loop"]
            /\ pend' = [pend EXCEPT ![c] = NoPend]
            /\ UNCHANGED <<sent, exiting, exitCause, peer>>
       ELSE IF SendRaises(Head(clients))
            THEN /\ exiting' = [exiting EXCEPT ![c] = TRUE]
                 /\ exitCause' = [exitCause EXCEPT ![c] =
                                     IF Head(clients) = c THEN "own" ELSE "peer"]
                 /\ pc' = [pc EXCEPT ![c] = "leave"]
                 /\ pend' = [pend EXCEPT ![c] = NoPend]
                 /\ UNCHANGED sent
            ELSE /\ sent' = [sent EXCEPT ![Head(clients)] = Append(@, pend[c].channel_line)]
                 /\ pend' = [pend EXCEPT ![c].client_array = Tail(clients)]
                 /\ UNCHANGED <<pc, exiting, exitCause>>
    /\ UNCHANGED <<srvVars, accVars, chVars, cliVars, stack, cur, ret, nLines,
                   client_buffer, order, writing, held, peer>>

\* ChannelServer.broadcast, a turn of its loop up to the call of socket.sendall in
\* Client.send, which takes no lock: the `closed` test is passed and the write begins
BroadcastWrite(c) ==
    /\ Top(c) = "ChannelServer" /\ pc[c] = "send"
    /\ pend[c].client_array # <<>>
    /\ c \notin writing[Head(pend[c].client_array)]
    /\ IF SendRaises(Head(pend[c].client_array))
       THEN /\ exiting' = [exiting EXCEPT ![c] = TRUE]
            /\ exitCause' = [exitCause EXCEPT ![c] =
                                IF Head(pend[c].client_array) = c THEN "own" ELSE "peer"]
            /\ pc' = [pc EXCEPT ![c] = "leave"]
            /\ pend' = [pend EXCEPT ![c] = NoPend]
            /\ UNCHANGED writing
       ELSE /\ writing' = [writing EXCEPT ![Head(pend[c].client_array)] = @ \cup {c}]
            /\ UNCHANGED <<pc, pend, exiting, exitCause>>
    /\ UNCHANGED <<srvVars, accVars, chVars, cliVars, stack, cur, ret, nLines,
                   client_buffer, order, sent, held, peer>>

\* socket.sendall returns and the loop of broadcast goes on; after the last
\* destination broadcast returns to message_loop
BroadcastWritten(c) ==
    /\ Top(c) = "ChannelServer" /\ pc[c] = "send"
    /\ IF pend[c].client_array = <<>>
       THEN /\ pc' = [pc EXCEPT ![c] = "loop"]
            /\ pend' = [pend EXCEPT ![c] = NoPend]
            /\ UNCHANGED <<sent, writing>>
       ELSE /\ c \in writing[Head(pend[c].client_array)]
            /\ writing' = [writing EXCEPT ![Head(pend[c].client_array)] = @ \ {c}]
            /\ sent' = [sent EXCEPT ![Head(pend[c].client_array)] =
                                        Append(@, pend[c].channel_line)]
            /\ pend' = [pend EXCEPT ![c].client_array = Tail(@)]
            /\ UNCHANGED pc
    /\ UNCHANGED <<srvVars, accVars, chVars, cliVars, stack, cur, ret, exiting, exitCause,
                   nLines, client_buffer, order, held, peer>>

\* message_loop: the plain line is broadcast with echo
ChanBroadcast(c) ==
    LET b == broadcast(c, cur[c], "plain", pend[c].name, TRUE) IN
    /\ Top(c) = "ChannelServer" /\ pc[c] = "bcast"
    /\ SendIO(c, b)
    /\ pc' = [pc EXCEPT ![c] = IF b.aborted THEN "leave" ELSE "loop"]
    /\ pend' = [pend EXCEPT ![c] = NoPend]
    /\ UNCHANGED <<srvVars, accVars, chVars, cliVars, stack, cur, ret, obsVars>>

\* `:exit`
ChanExit(c) ==
    /\ InLoop(c)
    /\ pc' = [pc EXCEPT ![c] = "leave"]
    /\ ret' = [ret EXCEPT ![c] = "None"]
    /\ UNCHANGED <<srvVars, accVars, chVars, cliVars, stack, cur, exiting, pend,
                   exitCause, obsVars>>

\* ChannelServer.do_admin
ChanAdmin(c) ==
    /\ InLoop(c)
    /\ privileged(c, cur[c])
    /\ pc' = [pc EXCEPT ![c] = "leave"]
    /\ ret' = [ret EXCEPT ![c] = "ChannelAdmin"]
    /\ UNCHANGED <<srvVars, accVars, chVars, cliVars, stack, cur, exiting, pend,
                   exitCause, obsVars>>

\* ChannelServer.do_summary with a non-empty buffer
ChanSummary(c) ==
    /\ InLoop(c)
    /\ chan[cur[c]].buffer # <<>>
    /\ pc' = [pc EXCEPT ![c] = "leave"]
    /\ ret' = [ret EXCEPT ![c] = "MarkVShaney"]
    /\ UNCHANGED <<srvVars, accVars, chVars, cliVars, stack, cur, exiting, pend,
                   exitCause, obsVars>>

\* ChannelServer.do_kick(name): `kicked` afterwards
do_kick(c, ch, name) ==
    IF /\ privileged(c, ch)
       /\ ~NotProtectable(ch, name)
       /\ ~is_protected(ch, name)
       /\ \E d \in Range(chan[ch].connected_clients) : cname[d] = name
    THEN Append(chan[ch].kicked, name)
    ELSE chan[ch].kicked

\* `:kick <name>`
ChanKick(c, name) ==
    /\ InLoop(c)
    /\ Len(chan[cur[c]].kicked) < MaxKicked
    /\ chan' = [chan EXCEPT ![cur[c]].kicked = do_kick(c, cur[c], name)]
    /\ UNCHANGED <<srvVars, accVars, CHANNEL_NAMES, NEXT_CHANNEL, cliVars, stkVars,
                   obsVars>>

\* ChannelServer.add_ban: whether the ban goes on after is_protected(name)
BanProceeds(ch, name) == ~NotProtectable(ch, name)

\* ChannelServer.add_ban(client, name): the channel afterwards
add_ban(c, ch, name) ==
    IF BanProceeds(ch, name) /\ ~InSeq(name, chan[ch].banned)
    THEN [chan[ch] EXCEPT !.banned = Append(@, name), !.kicked = do_kick(c, ch, name)]
    ELSE chan[ch]

\* `:ban add <name>`
ChanBanAdd(c, name) ==
    /\ InLoop(c)
    /\ privileged(c, cur[c])
    /\ Len(chan[cur[c]].kicked) < MaxKicked
    /\ chan' = [chan EXCEPT ![cur[c]] = add_ban(c, cur[c], name)]
    /\ UNCHANGED <<srvVars, accVars, CHANNEL_NAMES, NEXT_CHANNEL, cliVars, stkVars,
                   obsVars>>

\* `:ban del <name>` -> del_ban
ChanBanDel(c, name) ==
    /\ InLoop(c)
    /\ privileged(c, cur[c])
    /\ chan' = [chan EXCEPT ![cur[c]].banned = ListRemove(@, name)]
    /\ UNCHANGED <<srvVars, accVars, CHANNEL_NAMES, NEXT_CHANNEL, cliVars, stkVars,
                   obsVars>>

\* an add_mute that starts the muter list afresh
add_mute_reset(m, muted, muter) ==
    IF ~account_exists(muted) THEN m ELSE DictPut(m, muted, <<muter>>)

\* ChannelServer.add_mute(muted, client): muted_to_muter afterwards
add_mute(m, muted, muter) ==
    IF ~account_exists(muted) THEN m
    ELSE IF DictHas(m, muted)
         THEN IF InSeq(muter, DictGet(m, muted)) THEN m
              ELSE DictPut(m, muted, Append(DictGet(m, muted), muter))
         ELSE DictPut(m, muted, <<muter>>)

\* a del_mute that leaves the key of an emptied list in place
del_mute_keep(m, muted, muter) ==
    IF DictHas(m, muted) /\ InSeq(muter, DictGet(m, muted))
    THEN DictPut(m, muted, ListRemove(DictGet(m, muted), muter))
    ELSE m

\* ChannelServer.del_mute(muted, client): muted_to_muter afterwards
del_mute(m, muted, muter) ==
    IF DictHas(m, muted) /\ InSeq(muter, DictGet(m, muted))
    THEN LET muters == ListRemove(DictGet(m, muted), muter) IN
         IF muters = <<>> THEN DictDel(m, muted) ELSE DictPut(m, muted, muters)
    ELSE m

\* `:mute add <name>`
ChanMuteAdd(c, muted) ==
    /\ InLoop(c)
    /\ chan' = [chan EXCEPT ![cur[c]].muted_to_muter = add_mute(@, muted, cname[c])]
    /\ UNCHANGED <<srvVars, accVars, CHANNEL_NAMES, NEXT_CHANNEL, cliVars, stkVars,
                   obsVars>>

\* `:mute del <name>`
ChanMuteDel(c, muted) ==
    /\ InLoop(c)
    /\ chan' = [chan EXCEPT ![cur[c]].muted_to_muter = del_mute(@, muted, cname[c])]
    /\ UNCHANGED <<srvVars, accVars, CHANNEL_NAMES, NEXT_CHANNEL, cliVars, stkVars,
                   obsVars>>

\* OutsideMenu.deliver_message(source, name, text): the accounts afterwards
deliver_message(source, name) ==
    IF DictHas(ACCOUNTS, name)
    THEN [acct EXCEPT ![DictGet(ACCOUNTS, name)].messages =
                            Append(@, [source |-> source, new |-> TRUE])]
    ELSE acct

\* the client Account.broadcast prints the notice to (0: nobody)
NoticeTarget(name) ==
    IF DictHas(ACCOUNTS, name) /\ acct[DictGet(ACCOUNTS, name)].online
    THEN acct[DictGet(ACCOUNTS, name)].client ELSE 0

\* ChannelServer.may_wisper(name): the client to write to (0: None)
may_wisper(c, ch, name) ==
    IF InSeq(name, DictGetOrEmpty(chan[ch].muted_to_muter, cname[c])) THEN 0
    ELSE IF \E i \in 1..Len(chan[ch].connected_clients) :
                cname[chan[ch].connected_clients[i]] = name
         THEN LET i == CHOOSE i \in 1..Len(chan[ch].connected_clients) :
                         /\ cname[chan[ch].connected_clients[i]] = name
                         /\ \A j \in 1..(i - 1) :
                                cname[chan[ch].connected_clients[j]] # name
              IN chan[ch].connected_clients[i]
         ELSE 0

\* `:wisper <name>` up to the "Message:" prompt
ChanWisper(c, name) ==
    /\ InLoop(c)
    /\ account_exists(name)
    /\ pc' = [pc EXCEPT ![c] = "wisper"]
    /\ pend' = [pend EXCEPT ![c] = [NoPend EXCEPT !.name = name]]
    /\ UNCHANGED <<srvVars, accVars, chVars, cliVars, stack, cur, ret, exiting,
                   exitCause, obsVars>>

\* do_wisper with a non-empty message: send_wisper
ChanWisperSend(c) ==
    LET ch == cur[c]
        name == pend[c].name
        direct == may_wisper(c, ch, name)
        target == IF direct # 0 THEN direct ELSE NoticeTarget(name) IN
    /\ Top(c) = "ChannelServer" /\ pc[c] = "wisper" /\ ~closed[c]
    /\ direct = 0 /\ DictHas(ACCOUNTS, name) =>
            Len(acct[DictGet(ACCOUNTS, name)].messages) < MaxMessages
    /\ acct' = IF direct = 0 THEN deliver_message(cname[c], name) ELSE acct
    /\ pend' = [pend EXCEPT ![c] = NoPend]
    /\ IF target # 0 /\ SendRaises(target)
       THEN /\ pc' = [pc EXCEPT ![c] = "leave"]
            /\ exiting' = [exiting EXCEPT ![c] = TRUE]
            /\ exitCause' = [exitCause EXCEPT ![c] = "peer"]
       ELSE /\ pc' = [pc EXCEPT ![c] = "loop"]
            /\ UNCHANGED <<exiting, exitCause>>
    /\ UNCHANGED <<srvVars, ACCOUNTS, chVars, cliVars, stack, cur, ret, obsVars>>

\* run_channel's finally clause: the leave EVENT
ChanLeave(c) ==
    LET b == broadcast(c, cur[c], "leave", EVENT, FALSE) IN
    /\ Top(c) = "ChannelServer" /\ pc[c] = "leave"
    /\ SendIO(c, b)
    /\ pc' = [pc EXCEPT ![c] = "purge"]
    /\ UNCHANGED <<srvVars, accVars, chVars, cliVars, stack, cur, ret, pend, obsVars>>

\* ChannelServer.handle's finally clause, first lock section: purge `kicked`
ChanPurge(c) ==
    /\ Top(c) = "ChannelServer" /\ pc[c] = "purge"
    /\ chan' = [chan EXCEPT ![cur[c]].kicked = RemoveAll(@, cname[c])]
    /\ pc' = [pc EXCEPT ![c] = "disconnect"]
    /\ UNCHANGED <<srvVars, accVars, CHANNEL_NAMES, NEXT_CHANNEL, cliVars, stack, cur,
                   ret, exiting, pend, exitCause, obsVars>>

\* ChannelServer.handle's finally clause, second lock section (disconnect), and
\* what Stack.run does with the handler that handle() returns
ChanDisconnect(c) ==
    /\ Top(c) = "ChannelServer" /\ pc[c] = "disconnect"
    /\ chan' = [chan EXCEPT ![cur[c]].connected_clients = RemoveAll(@, c)]
    /\ IF exiting[c]
       THEN pc' = [pc EXCEPT ![c] = "finally"] /\ UNCHANGED <<stack, cur>>
       ELSE IF ret[c] = "None"
            THEN Pop(c) /\ cur' = [cur EXCEPT ![c] = 0]
            ELSE Push(c, ret[c]) /\ UNCHANGED cur
    /\ UNCHANGED <<srvVars, accVars, CHANNEL_NAMES, NEXT_CHANNEL, cliVars, ret, exiting,
                   pend, exitCause, obsVars>>

\* MarkVShaney.handle: print the summary, reconnect, return None
SummaryHandle(c) ==
    /\ Top(c) = "MarkVShaney" /\ pc[c] = "enter" /\ ~closed[c]
    /\ chan' = [chan EXCEPT ![cur[c]].connected_clients = Connected(@, c)]
    /\ Pop(c)
    /\ UNCHANGED <<srvVars, accVars, CHANNEL_NAMES, NEXT_CHANNEL, cliVars, cur, ret,
                   exiting, pend, exitCause, obsVars>>


(***************************************************************************)
(* ChannelAdmin: the single-writer console of a channel.                   *)
(***************************************************************************)
\* an acquire that never fails (a lock that excludes nobody)
TryAcquireAlways(ch) == TRUE

\* self.channel.admin_lock.acquire(False)
TryAcquire(ch) == ~chan[ch].admin_lock

\* ChannelAdmin.handle up to the command loop, or all of it when the lock is held
AdminHandle(c) ==
    LET ch == cur[c] IN
    /\ Top(c) = "ChannelAdmin" /\ pc[c] = "enter"
    /\ IF TryAcquire(ch)
       THEN IF closed[c]
            THEN \* the first print raises; the finally clause releases the lock
                 /\ Raise(c, "own")
                 /\ chan' = [chan EXCEPT ![ch].admin_name = cname[c]]
                 /\ UNCHANGED stack
            ELSE /\ chan' = [chan EXCEPT ![ch].admin_lock = TRUE,
                                         ![ch].admin_name = cname[c]]
                 /\ pc' = [pc EXCEPT ![c] = "cmd"]
                 /\ UNCHANGED <<stack, exiting, exitCause>>
       ELSE IF closed[c]
            THEN Raise(c, "own") /\ UNCHANGED <<chan, stack>>
            ELSE /\ chan' = [chan EXCEPT ![ch].connected_clients = Connected(@, c)]
                 /\ Pop(c)
                 /\ UNCHANGED <<exiting, exitCause>>
    /\ UNCHANGED <<srvVars, accVars, CHANNEL_NAMES, NEXT_CHANNEL, cliVars, cur, ret,
                   pend, obsVars>>

\* ChannelAdmin.handle once command_loop has returned: release the lock,
\* reconnect the caller to the channel, return None
LeaveConsole(ch, c) == [ch EXCEPT !.admin_lock = FALSE,
                                  !.connected_clients = Connected(@, c)]

\* `exit` in the console
AdminExit(c) ==
    /\ AtCmd(c, "ChannelAdmin")
    /\ chan' = [chan EXCEPT ![cur[c]] = LeaveConsole(@, c)]
    /\ Pop(c)
    /\ UNCHANGED <<srvVars, accVars, CHANNEL_NAMES, NEXT_CHANNEL, cliVars, cur, ret,
                   exiting, pend, exitCause, obsVars>>

\* for client in connected_clients.values(): kicked.append(client.name)
KickEveryone(ch) ==
    ch.kicked \o [i \in 1..Len(ch.connected_clients) |-> cname[ch.connected_clients[i]]]

\* ChannelAdmin.reset_channel
reset_keep(ch, c) ==
    [ch EXCEPT !.owner = cname[c], !.password = "", !.buffer = <<>>,
               !.buffer_size = NoSize, !.replay_size = DefaultReplaySize,
               !.banned = <<>>]

reset_channel(ch, c) ==
    [ch EXCEPT !.owner = cname[c], !.password = "", !.buffer = <<>>,
               !.buffer_size = NoSize, !.replay_size = DefaultReplaySize,
               !.muted_to_muter = <<>>, !.banned = <<>>]

\* InsideMenu.delete_channel(name): only the name binding goes
delete_channel(name) == DictDel(CHANNEL_NAMES, name)

\* ChannelAdmin.do_buffer: the channel afterwards
do_buffer(ch, size) == [ch EXCEPT !.buffer_size = size]

AdminBuffer(c, size) ==
    /\ AtCmd(c, "ChannelAdmin")
    /\ chan' = [chan EXCEPT ![cur[c]] = do_buffer(@, size)]
    /\ UNCHANGED <<srvVars, accVars, CHANNEL_NAMES, NEXT_CHANNEL, cliVars, stkVars,
                   obsVars>>

\* ChannelAdmin.do_replay
AdminReplay(c, size) ==
    /\ AtCmd(c, "ChannelAdmin")
    /\ chan' = [chan EXCEPT ![cur[c]].replay_size = size]
    /\ UNCHANGED <<srvVars, accVars, CHANNEL_NAMES, NEXT_CHANNEL, cliVars, stkVars,
                   obsVars>>

\* ChannelAdmin.do_purge
AdminPurge(c) ==
    /\ AtCmd(c, "ChannelAdmin")
    /\ chan' = [chan EXCEPT ![cur[c]].buffer = <<>>]
    /\ UNCHANGED <<srvVars, accVars, CHANNEL_NAMES, NEXT_CHANNEL, cliVars, stkVars,
                   obsVars>>

\* ChannelAdmin.do_owner
AdminOwner(c, new_owner) ==
    /\ AtCmd(c, "ChannelAdmin")
    /\ chan' = [chan EXCEPT ![cur[c]].owner =
                    IF new_owner # @ /\ account_exists(new_owner) THEN new_owner ELSE @]
    /\ UNCHANGED <<srvVars, accVars, CHANNEL_NAMES, NEXT_CHANNEL, cliVars, stkVars,
                   obsVars>>

\* ChannelAdmin.do_password: `set <word>` with a non-empty word, or `unset` (word "")
AdminPassword(c, word) ==
    /\ AtCmd(c, "ChannelAdmin")
    /\ chan' = [chan EXCEPT ![cur[c]].password = word]
    /\ UNCHANGED <<srvVars, accVars, CHANNEL_NAMES, NEXT_CHANNEL, cliVars, stkVars,
                   obsVars>>

\* a rename that does not look whether the new name is bound
rename_over(old_name, new_name) ==
    IF DictHas(CHANNEL_NAMES, old_name)
    THEN DictPut(DictDel(CHANNEL_NAMES, old_name), new_name,
                 DictGet(CHANNEL_NAMES, old_name))
    ELSE CHANNEL_NAMES

\* InsideMenu.rename_channel(old_name, new_name): the registry afterwards
rename_channel(old_name, new_name) ==
    IF DictHas(CHANNEL_NAMES, old_name) /\ ~DictHas(CHANNEL_NAMES, new_name)
    THEN DictPut(DictDel(CHANNEL_NAMES, old_name), new_name,
                 DictGet(CHANNEL_NAMES, old_name))
    ELSE CHANNEL_NAMES

\* ChannelAdmin.do_rename -> try_rename
AdminRename(c, new_name) ==
    LET ch == cur[c]
        old_name == chan[ch].channel_name
        success == /\ old_name # NoChannelName
                   /\ DictHas(CHANNEL_NAMES, old_name)
                   /\ ~DictHas(CHANNEL_NAMES, new_name) IN
    /\ AtCmd(c, "ChannelAdmin")
    /\ IF new_name = "" \/ TokenCount(new_name) > 1
       THEN UNCHANGED <<CHANNEL_NAMES, chan>>
       ELSE /\ CHANNEL_NAMES' = IF old_name # NoChannelName
                                THEN rename_channel(old_name, new_name)
                                ELSE CHANNEL_NAMES
            /\ chan' = [chan EXCEPT ![ch].channel_name =
                                        IF success THEN new_name ELSE @]
    /\ UNCHANGED <<srvVars, accVars, NEXT_CHANNEL, cliVars, stkVars, obsVars>>

\* ChannelAdmin.do_close
AdminClose(c) ==
    /\ AtCmd(c, "ChannelAdmin")
    /\ Len(chan[cur[c]].kicked) < MaxKicked
    /\ chan' = [chan EXCEPT ![cur[c]].kicked = KickEveryone(chan[cur[c]])]
    /\ UNCHANGED <<srvVars, accVars, CHANNEL_NAMES, NEXT_CHANNEL, cliVars, stkVars,
                   obsVars>>

\* ChannelAdmin.do_delete
AdminDelete(c) ==
    LET ch == cur[c] IN
    /\ AtCmd(c, "ChannelAdmin")
    /\ chan[ch].channel_name # NoChannelName
    /\ CHANNEL_NAMES' = delete_channel(chan[ch].channel_name)
    /\ chan' = [chan EXCEPT ![ch].channel_name = NoChannelName]
    /\ UNCHANGED <<srvVars, accVars, NEXT_CHANNEL, cliVars, stkVars, obsVars>>

\* ChannelAdmin.do_reset
AdminReset(c) ==
    LET ch == cur[c] IN
    /\ AtCmd(c, "ChannelAdmin")
    /\ Len(chan[ch].kicked) < MaxKicked
    /\ chan' = [chan EXCEPT ![ch] =
                    reset_channel([@ EXCEPT !.status = "reset",
                                            !.kicked = KickEveryone(chan[ch])], c)]
    /\ UNCHANGED <<srvVars, accVars, CHANNEL_NAMES, NEXT_CHANNEL, cliVars, stkVars,
                   obsVars>>

\* ChannelAdmin.do_finalize; it returns EOFError(), so the console is left at once
AdminFinalize(c) ==
    LET ch == cur[c] IN
    /\ AtCmd(c, "ChannelAdmin")
    /\ Len(chan[ch].kicked) < MaxKicked
    /\ CHANNEL_NAMES' = IF chan[ch].channel_name # NoChannelName
                        THEN delete_channel(chan[ch].channel_name) ELSE CHANNEL_NAMES
    /\ chan' = [chan EXCEPT ![ch] =
                    LeaveConsole(
                        reset_channel([@ EXCEPT !.status = "final",
                                                !.channel_name = NoChannelName,
                                                !.kicked = KickEveryone(chan[ch])], c),
                        c)]
    /\ Pop(c)
    /\ UNCHANGED <<srvVars, accVars, NEXT_CHANNEL, cliVars, cur, ret, exiting, pend,
                   exitCause, obsVars>>

(***************************************************************************)
(* A closed transport: the worker unwinds at its next read or write.       *)
(***************************************************************************)
\* Client.recv: socket.recv fails (the connection was reset) while the worker waits
\* for a line, and recv calls self.close(), which sets `closed` before sys.exit()
RecvError(c) ==
    /\ ~closed[c]
    /\ pc[c] \in {"cmd", "register_password", "auth", "loop", "wisper"}
    /\ closed' = [closed EXCEPT ![c] = TRUE]
    /\ UNCHANGED <<srvVars, accVars, chVars, cname, caccount, passed, stkVars, obsVars>>

\* Client.RECV_SIZE, Client.BUFF_SIZE and len(Client.SEPARATOR)
RECV_SIZE == 4096

BUFF_SIZE == 65536

SeparatorLen == 2

RECURSIVE SumLen(_)
SumLen(s) == IF s = <<>> THEN 0 ELSE Head(s) + SumLen(Tail(s))

\* len(self.buffer)
BufferLen(b) == SumLen(b.lines) + b.rest

\* SEPARATOR in self.buffer
HasLine(b) == b.lines # <<>>

\* what one socket.recv(RECV_SIZE) can deliver: at most RECV_SIZE bytes, given as the
\* lengths of the parts that end with a separator and of the bytes after the last one
Chunks ==
    {[lines |-> <<>>, rest |-> RECV_SIZE], [lines |-> <<>>, rest |-> 1],
     [lines |-> <<SeparatorLen>>, rest |-> 0], [lines |-> <<3, SeparatorLen>>, rest |-> 1],
     [lines |-> <<RECV_SIZE>>, rest |-> 0]}

\* self.buffer += chunk
Extend(b, chunk) ==
    IF chunk.lines = <<>> THEN [b EXCEPT !.rest = @ + chunk.rest]
    ELSE [lines |-> b.lines \o <<b.rest + Head(chunk.lines)>> \o Tail(chunk.lines),
          rest |-> chunk.rest]

\* the worker of client c stands in Client.recv
InRecv(c) == ~closed[c] /\ pc[c] \in {"cmd", "register_password", "auth", "loop", "wisper"}

\* Client.recv, one turn of its loop in which socket.recv delivers a chunk: the
\* length test follows every successful read, and close() ends with sys.exit()
RecvChunk(c, chunk) ==
    /\ InRecv(c)
    /\ ~HasLine(client_buffer[c])
    /\ chunk.rest = 1 => client_buffer[c].rest % RECV_SIZE < MaxShort
    /\ client_buffer' = [client_buffer EXCEPT ![c] = Extend(@, chunk)]
    /\ closed' = [closed EXCEPT ![c] = BufferLen(Extend(client_buffer[c], chunk)) > BUFF_SIZE]
    /\ UNCHANGED <<srvVars, accVars, chVars, cname, caccount, passed, stkVars, nLines, order, sent, writing, held, peer>>

\* the text Client.recv returns: self.buffer[:index]
RecvText(b) == Head(b.lines)

\* Client.recv once the buffer holds a separator: the first line is cut off
RecvLine(c) ==
    /\ InRecv(c)
    /\ HasLine(client_buffer[c])
    /\ client_buffer' = [client_buffer EXCEPT ![c].lines = Tail(@)]
    /\ UNCHANGED <<srvVars, accVars, chVars, cliVars, stkVars, nLines, order, sent, writing, held, peer>>

\* the worker of a closed client is woken in recv (or fails its next print):
\* SystemExit passes through the clean-up of the running handler
Unwinding(c) ==
    /\ closed[c] /\ ~exiting[c]
    /\ exiting' = [exiting EXCEPT ![c] = TRUE]
    /\ exitCause' = [exitCause EXCEPT ![c] = "own"]
    /\ UNCHANGED <<srvVars, acct, CHANNEL_NAMES, NEXT_CHANNEL, cliVars, stack, cur, ret,
                   pend, obsVars>>

\* ... in message_loop: run_channel's finally clause is next
UnwindLoop(c) ==
    /\ Top(c) = "ChannelServer" /\ pc[c] \in {"loop", "wisper"}
    /\ Unwinding(c)
    /\ pc' = [pc EXCEPT ![c] = "leave"]
    /\ UNCHANGED <<ACCOUNTS, chan>>

\* ... at the channel's password prompt: handle's finally clause is next
UnwindAuth(c) ==
    /\ Top(c) = "ChannelServer" /\ pc[c] = "auth"
    /\ Unwinding(c)
    /\ pc' = [pc EXCEPT ![c] = "purge"]
    /\ UNCHANGED <<ACCOUNTS, chan>>

\* ... in the channel-admin console: ChannelAdmin.handle's finally releases the lock
UnwindConsole(c) ==
    /\ Top(c) = "ChannelAdmin" /\ pc[c] = "cmd"
    /\ Unwinding(c)
    /\ chan' = [chan EXCEPT ![cur[c]].admin_lock = FALSE]
    /\ pc' = [pc EXCEPT ![c] = "finally"]
    /\ UNCHANGED ACCOUNTS

\* ... at do_register's password prompt: the bare except removes the name
UnwindRegister(c) ==
    /\ Top(c) = "OutsideMenu" /\ pc[c] = "register_password"
    /\ Unwinding(c)
    /\ ACCOUNTS' = DictDel(ACCOUNTS, pend[c].name)
    /\ pc' = [pc EXCEPT ![c] = "finally"]
    /\ UNCHANGED chan

\* ... in a handler without clean-up
UnwindMenu(c) ==
    /\ IF pc[c] = "cmd" THEN Top(c) # "ChannelAdmin"
       ELSE pc[c] = "enter" /\ Top(c) \in {"BanFilter", "MarkVShaney"}
    /\ Unwinding(c)
    /\ pc' = [pc EXCEPT ![c] = "finally"]
    /\ UNCHANGED <<ACCOUNTS, chan>>

StackFinallyBare(c) ==
    /\ pc[c] = "finally"
    /\ srvClients' = ListRemove(srvClients, c)
    /\ pc' = [pc EXCEPT ![c] = "done"]
    /\ stack' = [stack EXCEPT ![c] = <<>>]
    /\ UNCHANGED <<loop, BLOCKED, accVars, chVars, cliVars, cur, ret, exiting, pend,
                   exitCause, obsVars>>

\* Stack.run's finally clause; the Client object then dies, and with it the weak
\* reference an account holds to it
StackFinally(c) ==
    /\ pc[c] = "finally"
    /\ srvClients' = ListRemove(srvClients, c)
    /\ acct' = [i \in DOMAIN acct |->
                  [acct[i] EXCEPT !.online = IF i = caccount[c] THEN FALSE ELSE @,
                                  !.client = IF @ = c THEN 0 ELSE @]]
    /\ pc' = [pc EXCEPT ![c] = "done"]
    /\ stack' = [stack EXCEPT ![c] = <<>>]
    /\ UNCHANGED <<loop, BLOCKED, ACCOUNTS, chVars, cliVars, cur, ret, exiting, pend,
                   exitCause, obsVars>>


(***************************************************************************)
(* Initial states and specifications.                                      *)
(***************************************************************************)
\* the server just started with empty registries and no connection yet
Init ==
    /\ loop = TRUE
    /\ srvClients = <<>>
    /\ BLOCKED = <<>>
    /\ ACCOUNTS = <<>>
    /\ acct = <<>>
    /\ CHANNEL_NAMES = <<>>
    /\ NEXT_CHANNEL = 1
    /\ chan = <<>>
    /\ closed = [c \in Clients |-> FALSE]
    /\ cname = [c \in Clients |-> NoName]
    /\ caccount = [c \in Clients |-> 0]
    /\ passed = [c \in Clients |-> FALSE]
    /\ stack = [c \in Clients |-> <<>>]
    /\ pc = [c \in Clients |-> "idle"]
    /\ cur = [c \in Clients |-> 0]
    /\ ret = [c \in Clients |-> "None"]
    /\ exiting = [c \in Clients |-> FALSE]
    /\ pend = [c \in Clients |-> NoPend]
    /\ exitCause = [c \in Clients |-> "none"]
    /\ nLines = 0
    /\ client_buffer = [c \in Clients |-> NoBytes]
    /\ order = <<>>
    /\ sent = [c \in Clients |-> <<>>]
    /\ writing = [c \in Clients |-> {}]
    /\ held = [c \in Clients |-> <<>>]
    /\ peer = [c \in Clients |-> "open"]

\* a running server: every name has an account (the first one is the administrator's,
\* as for the first account ever registered), and every connection is logged in
\* and stands in its inside menu; no channel exists yet
InitChat ==
    /\ loop = TRUE
    /\ srvClients = [c \in Clients |-> c]
    /\ BLOCKED = <<>>
    /\ ACCOUNTS = [i \in 1..NNames |-> [k |-> NameSeq[i], v |-> i]]
    /\ acct = [i \in 1..NNames |->
                 [NewAccount(i = 1) EXCEPT !.password = "p",
                                           !.online = (i \in Clients),
                                           !.client = IF i \in Clients THEN i ELSE 0]]
    /\ CHANNEL_NAMES = <<>>
    /\ NEXT_CHANNEL = 1
    /\ chan = <<>>
    /\ closed = [c \in Clients |-> FALSE]
    /\ cname = [c \in Clients |-> NameSeq[c]]
    /\ caccount = [c \in Clients |-> c]
    /\ passed = [c \in Clients |-> TRUE]
    /\ stack = [c \in Clients |-> <<"BanFilter", "OutsideMenu", "InsideMenu">>]
    /\ pc = [c \in Clients |-> "cmd"]
    /\ cur = [c \in Clients |-> 0]
    /\ ret = [c \in Clients |-> "None"]
    /\ exiting = [c \in Clients |-> FALSE]
    /\ pend = [c \in Clients |-> NoPend]
    /\ exitCause = [c \in Clients |-> "none"]
    /\ nLines = 0
    /\ client_buffer = [c \in Clients |-> NoBytes]
    /\ order = <<>>
    /\ sent = [c \in Clients |-> <<>>]
    /\ writing = [c \in Clients |-> {}]
    /\ held = [c \in Clients |-> <<>>]
    /\ peer = [c \in Clients |-> "open"]

\* accounts, connections and sessions (register, login, logout, removal)
NextLogin ==
    \E c \in Clients :
        \/ Accept(c)
        \/ BanFilterHandle(c)
        \/ \E name \in Names, word \in Words : DoLogin(c, name, word)
        \/ \E name \in Names : DoRegister(c, name)
        \/ \E word \in Words : RegisterPassword(c, word)
        \/ OutsideExit(c)
        \/ InsideExit(c)
        \/ InsideAdmin(c)
        \/ InsidePush(c, "AccountOptions")
        \/ SubExit(c)
        \/ \E name \in Names : AccountRemove(c, name)
        \/ OptionsDeleteAccount(c)
        \/ UnwindMenu(c)
        \/ StackFinally(c)

SpecLogin == Init /\ [][NextLogin]_vars

\* the sessions logged in to Account object id
SessionsOf(id) ==
    {c \in Clients : caccount[c] = id /\ pc[c] \notin {"idle", "finally", "done"}
                     /\ ~closed[c] /\ ~exiting[c]}

\* C1: in every reachable state, at most one client session is logged in to any
\* one account
C1_OneSessionPerAccount ==
    \A id \in DOMAIN acct : Cardinality(SessionsOf(id)) <= 1


(***************************************************************************)
(* The channel-admin console: entering a channel, `:admin`, `exit`.        *)
(***************************************************************************)
NextConsole ==
    \E c \in Clients :
        \/ DoChannel(c, "x")
        \/ Dispatch(c)
        \/ SetupChannel(c, "", NoSize, DefaultReplaySize)
        \/ RunChannel(c)
        \/ Join(c)
        \/ ChanAdmin(c)
        \/ ChanExit(c)
        \/ ChanLeave(c)
        \/ ChanPurge(c)
        \/ ChanDisconnect(c)
        \/ AdminHandle(c)
        \/ AdminExit(c)
        \/ RecvError(c)
        \/ UnwindLoop(c)
        \/ UnwindConsole(c)
        \/ UnwindMenu(c)
        \/ StackFinally(c)

SpecConsole == InitChat /\ [][NextConsole]_vars

\* the clients inside the command loop of the ChannelAdmin console of channel ch
ConsoleUsers(ch) ==
    {c \in Clients : Top(c) = "ChannelAdmin" /\ pc[c] = "cmd" /\ cur[c] = ch}

\* client c has run `:admin` and its ChannelAdmin handler is about to try the lock
AdminPending(c) == Top(c) = "ChannelAdmin" /\ pc[c] = "enter" /\ ~closed[c]

C3_AtMostOne ==
    \A ch \in DOMAIN chan :
        /\ Cardinality(ConsoleUsers(ch)) <= 1
        /\ ConsoleUsers(ch) # {} => chan[ch].admin_lock

C3_Denied ==
    \A c \in Clients :
        (AdminPending(c) /\ chan[cur[c]].admin_lock /\ <<stack[c], pc[c]>>' # <<stack[c], pc[c]>>)
            => /\ stack'[c] = SubSeq(stack[c], 1, Len(stack[c]) - 1)
               /\ stack'[c][Len(stack'[c])] = "ChannelServer"
               /\ pc'[c] = "enter"
               /\ InSeq(c, chan'[cur[c]].connected_clients)
               /\ ConsoleUsers(cur[c])' = ConsoleUsers(cur[c])
               /\ chan'[cur[c]].admin_lock

\* C3: a channel never has more than one ChannelAdmin console inside its command
\* loop, the console's user holds the admin lock, and a user whose `:admin` finds
\* the lock held takes one step that gives no console: the handler is popped, the
\* user is connected to the channel again and stands at ChannelServer.handle
C3_SingleConsole == []C3_AtMostOne /\ [][C3_Denied]_vars

\* one user is in the console while a second privileged user has run `:admin`
C3_Witness ==
    \E c, d \in Clients :
        /\ c # d /\ cur[c] = cur[d]
        /\ c \in ConsoleUsers(cur[c])
        /\ AdminPending(d)
        /\ privileged(d, cur[d])


(***************************************************************************)
(* The message loop: lines, kick, ban, mute, and failing connections.      *)
(***************************************************************************)
NextChat ==
    \E c \in Clients :
        \/ DoChannel(c, "x")
        \/ Dispatch(c)
        \/ SetupChannel(c, "", NoSize, DefaultReplaySize)
        \/ RunChannel(c)
        \/ Join(c)
        \/ ChanKickedOut(c)
        \/ ChanSay(c)
        \/ ChanBroadcast(c)
        \/ ChanExit(c)
        \/ \E name \in Names : ChanKick(c, name)
        \/ \E name \in Names : ChanBanAdd(c, name)
        \/ \E name \in Names : ChanMuteAdd(c, name)
        \/ ChanLeave(c)
        \/ ChanPurge(c)
        \/ ChanDisconnect(c)
        \/ RecvError(c)
        \/ UnwindLoop(c)
        \/ UnwindMenu(c)
        \/ StackFinally(c)

SpecChat == InitChat /\ [][NextChat]_vars

\* C5: no worker is ever ended by a write to another client's closed connection
\* (a channel line, a whisper or an inbox notice for a client that is closed)
C5_NoPeerExit == \A c \in Clients : exitCause[c] # "peer"

\* client c takes a step of its own worker
Steps(c) == <<stack[c], pc[c]>>' # <<stack[c], pc[c]>>

\* the clients a line of b.user had to reach: connected, not kicked, and not among
\* those who muted the user
Audience(b) ==
    {d \in Range(b.clients) : ~InSeq(cname[d], b.kicked) /\ cname[d] \notin b.mutedBy}

\* C7: the broadcast of a plain line of user U writes to exactly the connected
\* clients that are not kicked and have not muted U, and U is one of them
C7_PlainDelivery ==
    [][\A c \in Clients :
          (Top(c) = "ChannelServer" /\ pc[c] = "bcast" /\ Steps(c))
             => LET b == broadcast(c, cur[c], "plain", pend[c].name, TRUE) IN
                b.to = Audience(b) /\ c \in b.to]_vars

\* C8: the broadcast of the join or leave EVENT of user U writes neither to U nor
\* to anybody who muted U
C8_EventFiltered ==
    [][\A c \in Clients :
          (/\ Top(c) = "ChannelServer" /\ Steps(c)
           /\ \/ pc[c] = "join" /\ ~closed[c]
              \/ pc[c] = "leave")
             => LET b == broadcast(c, cur[c], pc[c], EVENT, FALSE) IN
                /\ c \notin b.to
                /\ \A d \in b.to : cname[d] \notin b.mutedBy]_vars

C9_Discarded ==
    \A c \in Clients :
        (/\ Top(c) = "ChannelServer" /\ pc[c] = "loop" /\ ~closed[c]
         /\ InSeq(cname[c], chan[cur[c]].kicked)
         /\ Steps(c))
            => /\ pc'[c] = "leave" /\ ret'[c] = "None"
               /\ chan'[cur[c]].buffer = chan[cur[c]].buffer

C9_Left ==
    \A c \in Clients :
        (Top(c) = "ChannelServer" /\ pc[c] = "disconnect" /\ Steps(c))
            => /\ ~InSeq(c, chan'[cur[c]].connected_clients)
               /\ ~InSeq(cname[c], chan'[cur[c]].kicked)
               /\ (ret[c] = "None" /\ ~exiting[c]) => stack'[c][Len(stack'[c])] = "InsideMenu"

\* C9: a line read while the user's name is in `kicked` is dropped (no append, no
\* broadcast, no command) and ends the loop, the user returns to the inside menu,
\* and when the user has left the channel the name is no longer in `kicked`
C9_KickedLeaves == [][C9_Discarded /\ C9_Left]_vars

\* C10: `:ban add <name>` by a privileged user, for the owner or an administrator,
\* changes neither `banned` nor `kicked`
C10_BanRefused ==
    [][\A c \in Clients, name \in Names :
          (/\ ChanBanAdd(c, name)
           /\ account_exists(name)
           /\ is_protected(cur[c], name))
             => /\ chan'[cur[c]].banned = chan[cur[c]].banned
                /\ chan'[cur[c]].kicked = chan[cur[c]].kicked]_vars


(***************************************************************************)
(* The channel-admin commands on the buffer.                               *)
(***************************************************************************)
NextBuffer ==
    \E c \in Clients :
        \/ DoChannel(c, "x")
        \/ Dispatch(c)
        \/ \E size \in Sizes : SetupChannel(c, "", size, DefaultReplaySize)
        \/ RunChannel(c)
        \/ Join(c)
        \/ ChanSay(c)
        \/ ChanBroadcast(c)
        \/ ChanExit(c)
        \/ ChanAdmin(c)
        \/ ChanLeave(c)
        \/ ChanPurge(c)
        \/ ChanDisconnect(c)
        \/ AdminHandle(c)
        \/ AdminExit(c)
        \/ \E size \in Sizes : AdminBuffer(c, size)
        \/ AdminPurge(c)

SpecBuffer == InitChat /\ [][NextBuffer]_vars

\* C4: the buffer of every channel is never longer than
\* min(buffer_size if not None else 10000, 10000)
C4_BufferBounded ==
    \A ch \in DOMAIN chan : Len(chan[ch].buffer) <= Capacity(chan[ch].buffer_size)

(***************************************************************************)
(* The channel-admin commands on the life cycle: reset, owner, finalize.   *)
(***************************************************************************)
NextFinal ==
    \E c \in Clients :
        \/ DoChannel(c, "x")
        \/ Dispatch(c)
        \/ SetupChannel(c, "", NoSize, DefaultReplaySize)
        \/ RunChannel(c)
        \/ Join(c)
        \/ ChanKickedOut(c)
        \/ ChanExit(c)
        \/ ChanAdmin(c)
        \/ ChanLeave(c)
        \/ ChanPurge(c)
        \/ ChanDisconnect(c)
        \/ AdminHandle(c)
        \/ AdminExit(c)
        \/ AdminReset(c)
        \/ \E name \in Names : AdminOwner(c, name)
        \/ AdminFinalize(c)

SpecFinal == InitChat /\ [][NextFinal]_vars

\* C6: a channel whose status is `final` keeps that status in every step, and no
\* client passes from the entry of such a channel into its message loop
C6_FinalIsFinal ==
    [][\A ch \in DOMAIN chan :
          chan[ch].status = "final"
             => /\ chan'[ch].status = "final"
                /\ \A c \in Clients :
                      (cur[c] = ch /\ pc[c] = "join") => pc'[c] # "loop"]_vars


(***************************************************************************)
(* Account deletion against the contact lists and the channels.            *)
(***************************************************************************)
NextDelete ==
    \E c \in Clients :
        \/ DoChannel(c, "x")
        \/ Dispatch(c)
        \/ SetupChannel(c, "", NoSize, DefaultReplaySize)
        \/ RunChannel(c)
        \/ Join(c)
        \/ ChanKickedOut(c)
        \/ ChanExit(c)
        \/ \E name \in Names : ChanKick(c, name)
        \/ \E name \in Names : ChanBanAdd(c, name)
        \/ \E name \in Names : ChanMuteAdd(c, name)
        \/ ChanLeave(c)
        \/ ChanPurge(c)
        \/ ChanDisconnect(c)
        \/ InsideAdmin(c)
        \/ InsidePush(c, "AccountOptions")
        \/ SubExit(c)
        \/ \E name \in Names : AccountRemove(c, name)
        \/ OptionsDeleteAccount(c)
        \/ UnwindLoop(c)
        \/ UnwindMenu(c)
        \/ StackFinally(c)

SpecDelete == InitChat /\ [][NextDelete]_vars

\* name n occurs in no registered account's contacts and in no channel's banned,
\* kicked or muted_to_muter, whether the channel still has a name or not
NameGone(n) ==
    /\ \A i \in 1..Len(ACCOUNTS) : ~InSeq(n, acct[ACCOUNTS[i].v].contacts)
    /\ \A ch \in DOMAIN chan :
          /\ ~InSeq(n, chan[ch].banned)
          /\ ~InSeq(n, chan[ch].kicked)
          /\ ~DictHas(chan[ch].muted_to_muter, n)
          /\ \A i \in 1..Len(chan[ch].muted_to_muter) :
                ~InSeq(n, chan[ch].muted_to_muter[i].v)

\* C2: the step that deletes account A leaves A in no other account's contacts and
\* in no channel's banned, kicked or muted_to_muter
C2_DeletedNameGone ==
    [][\A n \in Names : (DictHas(ACCOUNTS, n) /\ ~DictHas(ACCOUNTS', n)) => NameGone(n)']_vars


(***************************************************************************)
(* Entering a channel that already holds lines: the replay.                *)
(***************************************************************************)
\* the sessions of InitChat: every name has an account and every connection is
\* logged in and stands in its inside menu
SessionsReady ==
    /\ loop = TRUE
    /\ srvClients = [c \in Clients |-> c]
    /\ BLOCKED = <<>>
    /\ ACCOUNTS = [i \in 1..NNames |-> [k |-> NameSeq[i], v |-> i]]
    /\ acct = [i \in 1..NNames |->
                 [NewAccount(i = 1) EXCEPT !.password = "p",
                                           !.online = (i \in Clients),
                                           !.client = IF i \in Clients THEN i ELSE 0]]
    /\ closed = [c \in Clients |-> FALSE]
    /\ cname = [c \in Clients |-> NameSeq[c]]
    /\ caccount = [c \in Clients |-> c]
    /\ passed = [c \in Clients |-> TRUE]
    /\ stack = [c \in Clients |-> <<"BanFilter", "OutsideMenu", "InsideMenu">>]
    /\ pc = [c \in Clients |-> "cmd"]
    /\ cur = [c \in Clients |-> 0]
    /\ ret = [c \in Clients |-> "None"]
    /\ exiting = [c \in Clients |-> FALSE]
    /\ pend = [c \in Clients |-> NoPend]
    /\ exitCause = [c \in Clients |-> "none"]

\* the first n lines ever said, all by user "a"
Lines(n) == [i \in 1..n |-> [source |-> NameSeq[1], message |-> i]]

ReplaySizes == {NoSize} \cup (0..(MaxBuffered + 1))

\* channel x was set up by "a" with some replay size, some lines were said in it,
\* and everybody has left it again
InitReplay ==
    /\ SessionsReady
    /\ \E n \in 0..MaxBuffered, size \in ReplaySizes :
          /\ chan = <<[NewChannel("x", NameSeq[1]) EXCEPT !.status = "ready",
                                                         !.buffer = Lines(n),
                                                         !.replay_size = size]>>
          /\ nLines = n
          /\ client_buffer = [c \in Clients |-> NoBytes]
          /\ order = <<>>
          /\ sent = [c \in Clients |-> <<>>]
          /\ writing = [c \in Clients |-> {}]
          /\ held = [c \in Clients |-> <<>>]
          /\ peer = [c \in Clients |-> "open"]
    /\ CHANNEL_NAMES = <<[k |-> "x", v |-> 1]>>
    /\ NEXT_CHANNEL = 2

NextReplay ==
    \E c \in Clients :
        \/ DoChannel(c, "x")
        \/ Dispatch(c)
        \/ RunChannel(c)
        \/ ReplayBuffer(c)
        \/ ShowStatus(c)
        \/ ChanExit(c)
        \/ ChanLeave(c)
        \/ ChanPurge(c)
        \/ ChanDisconnect(c)

SpecReplay == InitReplay /\ [][NextReplay]_vars

\* the last `size` lines of buffer, oldest first; all of it when size is None or
\* not smaller than the buffer, nothing when size is 0
C11_LastLines(buffer, size) ==
    IF size = NoSize \/ size >= Len(buffer) THEN buffer
    ELSE [i \in 1..size |-> buffer[Len(buffer) - size + i]]

\* C11: the step in which a user who passed the ban test and authentication is sent
\* the replay sends exactly the last replay_size lines of the buffer as it stands,
\* oldest first (all of it for None or a size not below its length, nothing for 0),
\* and the connected-count line and the message loop come only after that step
C11_Replay ==
    [][\A c \in Clients :
          /\ (Top(c) = "ChannelServer" /\ pc[c] = "join" /\ pc'[c] = "status")
                => pend'[c].buffer = C11_LastLines(chan[cur[c]].buffer,
                                               chan[cur[c]].replay_size)
          /\ (pc[c] = "join" /\ Steps(c)) => pc'[c] \in {"status", "purge"}
          /\ (pc'[c] = "loop" /\ pc[c] # "loop") => pc[c] = "status"]_vars

\* a user has just been sent a replay that is shorter than the buffer but not empty
C11_Witness ==
    \E c \in Clients :
        /\ Top(c) = "ChannelServer" /\ pc[c] = "status"
        /\ pend[c].buffer # <<>>
        /\ Len(pend[c].buffer) < Len(chan[cur[c]].buffer)
        /\ Len(pend[c].buffer) = chan[cur[c]].replay_size


(***************************************************************************)
(* A channel whose buffer size is 0.                                       *)
(***************************************************************************)
NextZero ==
    \E c \in Clients :
        \/ DoChannel(c, "x")
        \/ Dispatch(c)
        \/ \E size \in Sizes : SetupChannel(c, "", size, DefaultReplaySize)
        \/ RunChannel(c)
        \/ ReplayBuffer(c)
        \/ ShowStatus(c)
        \/ ChanSay(c)
        \/ ChanBroadcast(c)
        \/ ChanExit(c)
        \/ ChanAdmin(c)
        \/ ChanLeave(c)
        \/ ChanPurge(c)
        \/ ChanDisconnect(c)
        \/ AdminHandle(c)
        \/ AdminExit(c)
        \/ \E size \in Sizes : AdminBuffer(c, size)

SpecZero == InitChat /\ [][NextZero]_vars

\* C12: while buffer_size is 0, a plain line goes on to the broadcast and leaves the
\* buffer as it was, and a user who enters the channel is replayed no line
C12_ZeroBuffer ==
    [][\A c \in Clients :
          (Top(c) = "ChannelServer" /\ cur[c] \in DOMAIN chan
           /\ chan[cur[c]].buffer_size = 0)
          => /\ (pc[c] = "loop" /\ Steps(c) /\ nLines' # nLines)
                   => (pc'[c] = "bcast" /\ chan'[cur[c]].buffer = chan[cur[c]].buffer)
             /\ (pc[c] = "join" /\ pc'[c] = "status")
                   => pend'[c].buffer = <<>>]_vars


(***************************************************************************)
(* Whispers in a channel that is ready.                                    *)
(***************************************************************************)
\* channel x was set up by "a" and nobody is inside
InitRoom ==
    /\ SessionsReady
    /\ chan = <<[NewChannel("x", NameSeq[1]) EXCEPT !.status = "ready"]>>
    /\ CHANNEL_NAMES = <<[k |-> "x", v |-> 1]>>
    /\ NEXT_CHANNEL = 2
    /\ nLines = 0
    /\ client_buffer = [c \in Clients |-> NoBytes]
    /\ order = <<>>
    /\ sent = [c \in Clients |-> <<>>]
    /\ writing = [c \in Clients |-> {}]
    /\ held = [c \in Clients |-> <<>>]
    /\ peer = [c \in Clients |-> "open"]

NextWisper ==
    \E c \in Clients :
        \/ DoChannel(c, "x")
        \/ Dispatch(c)
        \/ RunChannel(c)
        \/ Join(c)
        \/ ChanExit(c)
        \/ \E name \in Names : ChanMuteAdd(c, name)
        \/ \E name \in Names : ChanWisper(c, name)
        \/ ChanWisperSend(c)
        \/ ChanLeave(c)
        \/ ChanPurge(c)
        \/ ChanDisconnect(c)
        \/ InsidePush(c, "AccountOptions")
        \/ SubExit(c)
        \/ OptionsDeleteAccount(c)
        \/ RecvError(c)
        \/ UnwindLoop(c)
        \/ UnwindMenu(c)
        \/ StackFinally(c)

SpecWisper == InitRoom /\ [][NextWisper]_vars

\* the whisper of client c goes to a user who is connected to c's channel and has
\* not muted c
C13_Direct(c) ==
    /\ \E d \in Range(chan[cur[c]].connected_clients) : cname[d] = pend[c].name
    /\ ~InSeq(pend[c].name, DictGetOrEmpty(chan[cur[c]].muted_to_muter, cname[c]))

\* C13: a whisper is written to the target's connection, and nothing is stored,
\* exactly when the target is connected to the channel and has not muted the sender;
\* otherwise one message is appended to the target's inbox, unless the target's
\* account no longer exists, the only case in which nothing is sent or stored
C13_WisperRouted ==
    [][\A c \in Clients :
          (Top(c) = "ChannelServer" /\ pc[c] = "wisper" /\ ~closed[c] /\ Steps(c))
          => IF C13_Direct(c)
             THEN acct' = acct /\ pc'[c] = "loop"
             ELSE IF account_exists(pend[c].name)
                  THEN LET i == DictGet(ACCOUNTS, pend[c].name) IN
                       /\ Len(acct'[i].messages) = Len(acct[i].messages) + 1
                       /\ \A j \in DOMAIN acct : j # i => acct'[j] = acct[j]
                  ELSE acct' = acct /\ pc'[c] = "loop"]_vars


(***************************************************************************)
(* The inside menu's `admin` command for a user who is no administrator.   *)
(***************************************************************************)
NextForgive ==
    \E c \in Clients :
        \/ \E name \in Names, word \in Words : DoLogin(c, name, word)
        \/ OutsideExit(c)
        \/ InsideExit(c)
        \/ InsideAdmin(c)
        \/ InsidePush(c, "AccountOptions")
        \/ SubExit(c)
        \/ StackFinally(c)

SpecForgive == InitChat /\ [][NextForgive]_vars

\* client c, no administrator, runs `admin` in this step
C14_Attempt(c) ==
    /\ AtCmd(c, "InsideMenu")
    /\ ~acct[caccount[c]].administrator
    /\ \/ acct'[caccount[c]].forgiven # acct[caccount[c]].forgiven
       \/ BLOCKED' # BLOCKED

\* C14: the second `admin` of a user who is no administrator and whose counter
\* started at 0 (the counter is 1 when it is typed) deletes the account, appends
\* the connection's address to the ban list and closes the connection
C14_SecondAttempt ==
    [][\A c \in Clients :
          (C14_Attempt(c) /\ acct[caccount[c]].forgiven = 1)
          => /\ ~DictHas(ACCOUNTS', cname[c])
             /\ InSeq(AddressOf(c), BLOCKED')
             /\ closed'[c]]_vars


(***************************************************************************)
(* Registration and login on a server that starts without accounts.        *)
(***************************************************************************)
\* every connection was accepted, passed the ban filter and stands at the outside
\* menu's prompt; nobody has registered yet
InitOutside ==
    /\ loop = TRUE
    /\ srvClients = [c \in Clients |-> c]
    /\ BLOCKED = <<>>
    /\ ACCOUNTS = <<>>
    /\ acct = <<>>
    /\ CHANNEL_NAMES = <<>>
    /\ NEXT_CHANNEL = 1
    /\ chan = <<>>
    /\ closed = [c \in Clients |-> FALSE]
    /\ cname = [c \in Clients |-> NoName]
    /\ caccount = [c \in Clients |-> 0]
    /\ passed = [c \in Clients |-> TRUE]
    /\ stack = [c \in Clients |-> <<"BanFilter", "OutsideMenu">>]
    /\ pc = [c \in Clients |-> "cmd"]
    /\ cur = [c \in Clients |-> 0]
    /\ ret = [c \in Clients |-> "None"]
    /\ exiting = [c \in Clients |-> FALSE]
    /\ pend = [c \in Clients |-> NoPend]
    /\ exitCause = [c \in Clients |-> "none"]
    /\ nLines = 0
    /\ client_buffer = [c \in Clients |-> NoBytes]
    /\ order = <<>>
    /\ sent = [c \in Clients |-> <<>>]
    /\ writing = [c \in Clients |-> {}]
    /\ held = [c \in Clients |-> <<>>]
    /\ peer = [c \in Clients |-> "open"]

NextRegister ==
    \E c \in Clients :
        \/ \E name \in Names : DoRegister(c, name)
        \/ \E word \in Words : RegisterPassword(c, word)
        \/ InsideExit(c)

SpecRegister == InitOutside /\ [][NextRegister]_vars

\* C15: the account a `register` stores is an administrator exactly when the
\* registry held no account at the moment the name was stored; so of two accounts
\* registered one after the other into an empty registry only the first is one
C15_FirstIsAdmin ==
    [][Len(acct') = Len(acct) + 1
          => /\ Len(ACCOUNTS') = Len(ACCOUNTS) + 1
             /\ ACCOUNTS'[Len(ACCOUNTS')].v = Len(acct')
             /\ acct'[Len(acct')].administrator = (ACCOUNTS = <<>>)]_vars

\* two accounts were registered one after the other into an empty registry: the
\* first is an administrator, the second is not
C15_Witness ==
    /\ Len(acct) = 2 /\ Len(ACCOUNTS) = 2
    /\ ACCOUNTS[1].v = 1 /\ ACCOUNTS[2].v = 2
    /\ acct[1].administrator /\ ~acct[2].administrator
    /\ acct[1].password # "" /\ acct[2].password # ""

(***************************************************************************)
(* Logging in to accounts that exist.                                      *)
(***************************************************************************)
\* some of the names have an account with password "p" (the first is the
\* administrator's), nobody is logged in, and every connection stands at the outside
\* menu's prompt
InitAccounts ==
    /\ loop = TRUE
    /\ srvClients = [c \in Clients |-> c]
    /\ BLOCKED = <<>>
    /\ \E n \in 1..NNames :
          /\ ACCOUNTS = [i \in 1..n |-> [k |-> NameSeq[i], v |-> i]]
          /\ acct = [i \in 1..n |-> [NewAccount(i = 1) EXCEPT !.password = "p"]]
    /\ CHANNEL_NAMES = <<>>
    /\ NEXT_CHANNEL = 1
    /\ chan = <<>>
    /\ closed = [c \in Clients |-> FALSE]
    /\ cname = [c \in Clients |-> NoName]
    /\ caccount = [c \in Clients |-> 0]
    /\ passed = [c \in Clients |-> TRUE]
    /\ stack = [c \in Clients |-> <<"BanFilter", "OutsideMenu">>]
    /\ pc = [c \in Clients |-> "cmd"]
    /\ cur = [c \in Clients |-> 0]
    /\ ret = [c \in Clients |-> "None"]
    /\ exiting = [c \in Clients |-> FALSE]
    /\ pend = [c \in Clients |-> NoPend]
    /\ exitCause = [c \in Clients |-> "none"]
    /\ nLines = 0
    /\ client_buffer = [c \in Clients |-> NoBytes]
    /\ order = <<>>
    /\ sent = [c \in Clients |-> <<>>]
    /\ writing = [c \in Clients |-> {}]
    /\ held = [c \in Clients |-> <<>>]
    /\ peer = [c \in Clients |-> "open"]

NextSignIn ==
    \E c \in Clients :
        \/ \E name \in Names, word \in Words : DoLogin(c, name, word)
        \/ OutsideExit(c)
        \/ InsideExit(c)
        \/ InsidePush(c, "AccountOptions")
        \/ SubExit(c)
        \/ OptionsDeleteAccount(c)
        \/ StackFinally(c)

SpecSignIn == InitAccounts /\ [][NextSignIn]_vars

\* the three ways a login fails: no such account, wrong password, already online
C16_Fails(name, word) ==
    \/ ~DictHas(ACCOUNTS, name)
    \/ word # acct[DictGet(ACCOUNTS, name)].password
    \/ acct[DictGet(ACCOUNTS, name)].online

\* C16: a `login` whose account is missing, whose password is wrong or whose account
\* is already online changes no account (online flag, client binding), pushes no
\* inside menu and leaves the caller at the outside menu's prompt
C16_FailedLogin ==
    [][\A c \in Clients, name \in Names, word \in Words :
          (DoLogin(c, name, word) /\ C16_Fails(name, word))
          => /\ acct' = acct
             /\ stack' = stack /\ pc' = pc
             /\ cname' = cname /\ caccount' = caccount
             /\ AtCmd(c, "OutsideMenu")']_vars

\* a client stands at the outside menu while an account with a password is online,
\* and another account does not exist: each kind of failure can be typed
C16_Witness ==
    \E c \in Clients :
        /\ AtCmd(c, "OutsideMenu")
        /\ \E name \in Names : ~DictHas(ACCOUNTS, name)
        /\ \E name \in Names :
              /\ DictHas(ACCOUNTS, name)
              /\ acct[DictGet(ACCOUNTS, name)].online
              /\ acct[DictGet(ACCOUNTS, name)].password = "p"


(***************************************************************************)
(* Names typed at a prompt: accounts, channels, renamed channels.          *)
(***************************************************************************)
NextNames ==
    \E c \in Clients :
        \/ InsideExit(c)
        \/ \E name \in TypedLines : DoRegister(c, name)
        \/ \E word \in Words : RegisterPassword(c, word)
        \/ \E name \in ChanNames \cup TypedLines : DoChannel(c, name)
        \/ Dispatch(c)
        \/ SetupChannel(c, "", NoSize, DefaultReplaySize)
        \/ RunChannel(c)
        \/ Join(c)
        \/ ChanAdmin(c)
        \/ ChanLeave(c)
        \/ ChanPurge(c)
        \/ ChanDisconnect(c)
        \/ AdminHandle(c)
        \/ \E name \in ChanNames \cup TypedLines : AdminRename(c, name)

SpecNames == InitChat /\ [][NextNames]_vars

\* C17: every account name and every channel name in the registries is non-empty
\* and holds no whitespace
C17_NamesClean ==
    /\ \A i \in 1..Len(ACCOUNTS) : ~NotAName(ACCOUNTS[i].k)
    /\ \A i \in 1..Len(CHANNEL_NAMES) : ~NotAName(CHANNEL_NAMES[i].k)


(***************************************************************************)
(* The channel registry: create, rename, delete.                           *)
(***************************************************************************)
NextRegistry ==
    \E c \in Clients :
        \/ \E name \in ChanNames : DoChannel(c, name)
        \/ Dispatch(c)
        \/ SetupChannel(c, "", NoSize, DefaultReplaySize)
        \/ RunChannel(c)
        \/ Join(c)
        \/ ChanAdmin(c)
        \/ ChanLeave(c)
        \/ ChanPurge(c)
        \/ ChanDisconnect(c)
        \/ AdminHandle(c)
        \/ \E name \in ChanNames : AdminRename(c, name)
        \/ AdminDelete(c)

SpecRegistry == InitChat /\ [][NextRegistry]_vars

\* every bound name has one id, no two names share an id, and every id ever handed
\* out lies below the counter and denotes one channel object
C18_Bindings ==
    /\ \A i, j \in 1..Len(CHANNEL_NAMES) :
          (CHANNEL_NAMES[i].k = CHANNEL_NAMES[j].k \/ CHANNEL_NAMES[i].v = CHANNEL_NAMES[j].v)
             => i = j
    /\ \A i \in 1..Len(CHANNEL_NAMES) : CHANNEL_NAMES[i].v \in 1..(NEXT_CHANNEL - 1)
    /\ Len(chan) = NEXT_CHANNEL - 1

\* C18: the registry maps each bound name to one id and no two names to the same
\* id; the counter only grows, and a name that becomes bound without a rename gets
\* the counter's value, which no channel ever had; a rename keeps the id and changes
\* nothing when the new name is bound; a delete removes only the binding, leaves the
\* channel object and the users inside it alone, and the same name typed at `channel`
\* afterwards makes another channel
C18_Registry ==
    [][/\ C18_Bindings /\ C18_Bindings'
       /\ NEXT_CHANNEL' >= NEXT_CHANNEL
       /\ \A c \in Clients, name \in ChanNames :
             /\ (DoChannel(c, name) /\ ~DictHas(CHANNEL_NAMES, name))
                   => /\ DictGet(CHANNEL_NAMES', name) = NEXT_CHANNEL
                      /\ NEXT_CHANNEL' = NEXT_CHANNEL + 1
                      /\ cur'[c] = NEXT_CHANNEL
                      /\ \A i \in 1..Len(chan) : chan'[i] = chan[i]
                      /\ \A n \in DictKeys(CHANNEL_NAMES) :
                            DictGet(CHANNEL_NAMES', n) = DictGet(CHANNEL_NAMES, n)
             /\ (AdminRename(c, name) /\ DictHas(CHANNEL_NAMES, name))
                   => UNCHANGED <<CHANNEL_NAMES, NEXT_CHANNEL, chan>>
             /\ (AdminRename(c, name) /\ ~DictHas(CHANNEL_NAMES, name)
                 /\ chan[cur[c]].channel_name # NoChannelName)
                   => /\ DictGet(CHANNEL_NAMES', name) = cur[c]
                      /\ ~DictHas(CHANNEL_NAMES', chan[cur[c]].channel_name)
                      /\ chan'[cur[c]].channel_name = name
             /\ AdminDelete(c)
                   => /\ CHANNEL_NAMES' = DictDel(CHANNEL_NAMES, chan[cur[c]].channel_name)
                      /\ chan' = [chan EXCEPT ![cur[c]].channel_name = NoChannelName]
                      /\ cur' = cur /\ stack' = stack]_vars

\* a channel was deleted while its administrator is still inside it, and a name is
\* bound to a channel made afterwards
C18_Witness ==
    \E c \in Clients :
        /\ Top(c) = "ChannelAdmin"
        /\ chan[cur[c]].channel_name = NoChannelName
        /\ \E i \in 1..Len(CHANNEL_NAMES) : CHANNEL_NAMES[i].v > cur[c]
        /\ \E d \in Clients : d # c /\ Top(d) = "ChannelServer" /\ cur[d] > cur[c]


(***************************************************************************)
(* The mute lists of a channel, and the accounts in them being deleted.    *)
(***************************************************************************)
\* channel x was set up by "a" and everybody is inside its message loop
InitInside ==
    /\ loop = TRUE
    /\ srvClients = [c \in Clients |-> c]
    /\ BLOCKED = <<>>
    /\ ACCOUNTS = [i \in 1..NNames |-> [k |-> NameSeq[i], v |-> i]]
    /\ acct = [i \in 1..NNames |->
                 [NewAccount(i = 1) EXCEPT !.password = "p",
                                           !.online = (i \in Clients),
                                           !.client = IF i \in Clients THEN i ELSE 0]]
    /\ CHANNEL_NAMES = <<[k |-> "x", v |-> 1]>>
    /\ NEXT_CHANNEL = 2
    /\ chan = <<[NewChannel("x", NameSeq[1])
                    EXCEPT !.status = "ready",
                           !.connected_clients = [c \in Clients |-> c]]>>
    /\ closed = [c \in Clients |-> FALSE]
    /\ cname = [c \in Clients |-> NameSeq[c]]
    /\ caccount = [c \in Clients |-> c]
    /\ passed = [c \in Clients |-> TRUE]
    /\ stack = [c \in Clients |->
                  <<"BanFilter", "OutsideMenu", "InsideMenu", "ChannelServer">>]
    /\ pc = [c \in Clients |-> "loop"]
    /\ cur = [c \in Clients |-> 1]
    /\ ret = [c \in Clients |-> "None"]
    /\ exiting = [c \in Clients |-> FALSE]
    /\ pend = [c \in Clients |-> NoPend]
    /\ exitCause = [c \in Clients |-> "none"]
    /\ nLines = 0
    /\ client_buffer = [c \in Clients |-> NoBytes]
    /\ order = <<>>
    /\ sent = [c \in Clients |-> <<>>]
    /\ writing = [c \in Clients |-> {}]
    /\ held = [c \in Clients |-> <<>>]
    /\ peer = [c \in Clients |-> "open"]

\* the users named in the `:mute` commands: the owner and one other user
MuteTargets == {NameSeq[1], NameSeq[2]}

NextMute ==
    \E c \in Clients :
        \/ \E name \in MuteTargets : ChanMuteAdd(c, name)
        \/ \E name \in MuteTargets : ChanMuteDel(c, name)
        \/ ChanExit(c)
        \/ ChanLeave(c)
        \/ ChanPurge(c)
        \/ ChanDisconnect(c)
        \/ InsidePush(c, "AccountOptions")
        \/ OptionsDeleteAccount(c)
        \/ StackFinally(c)

SpecMute == InitInside /\ [][NextMute]_vars

\* C19: in no channel is a name both a key of muted_to_muter and one of the muters
\* listed under that key (nobody is recorded as having muted themself)
C19_NoSelfMute ==
    \A ch \in DOMAIN chan :
        \A i \in 1..Len(chan[ch].muted_to_muter) :
            ~InSeq(chan[ch].muted_to_muter[i].k, chan[ch].muted_to_muter[i].v)

\* C20: every key of every channel's muted_to_muter has at least one muter: a key
\* whose last muter is removed, by `:mute del` or by the deletion of the muter's
\* account, is removed with it
C20_MutersNonEmpty ==
    \A ch \in DOMAIN chan :
        \A i \in 1..Len(chan[ch].muted_to_muter) : chan[ch].muted_to_muter[i].v # <<>>

\* a user has deleted the own account after muting somebody: the cascade took the
\* key away with its last muter (and ended with the RuntimeError of a dict that
\* changed size during the iteration)
C20_Witness ==
    \E c \in Clients :
        /\ exitCause[c] = "error"
        /\ ~DictHas(ACCOUNTS, cname[c])
        /\ \A ch \in DOMAIN chan :
              \A i \in 1..Len(chan[ch].muted_to_muter) :
                  ~InSeq(cname[c], chan[ch].muted_to_muter[i].v)


\* caller c, in the message loop, has already muted the user called name
C21_Muted(c, name) == InSeq(cname[c], DictGetOrEmpty(chan[cur[c]].muted_to_muter, name))

\* what `:mute add name` followed by `:mute del name`, both typed by c, leave
C21_AddDel(c, name) ==
    del_mute(add_mute(chan[cur[c]].muted_to_muter, name, cname[c]), name, cname[c])

NextAgain ==
    \E c \in Clients :
        \/ \E name \in Names : ChanMuteAdd(c, name)
        \/ ChanExit(c)
        \/ ChanLeave(c)
        \/ ChanPurge(c)
        \/ ChanDisconnect(c)
        \/ DoChannel(c, "y")
        \/ Dispatch(c)
        \/ SetupChannel(c, "", NoSize, DefaultReplaySize)
        \/ RunChannel(c)
        \/ Join(c)
        \/ InsidePush(c, "AccountOptions")
        \/ OptionsDeleteAccount(c)
        \/ InsideExit(c)
        \/ \E name \in Names : DoRegister(c, name)
        \/ RegisterPassword(c, "p")
        \/ StackFinally(c)

SpecAgain == InitInside /\ [][NextAgain]_vars

\* C22: for a name that has no account, registering it and deleting it at once
\* leaves the registry, the contact lists of the other accounts and the channels'
\* banned, kicked and muted_to_muter as they are
C22_RoundTrip ==
    \A n \in Names :
        ~DictHas(ACCOUNTS, n)
        => /\ DictDel(DictPut(ACCOUNTS, n, Len(acct) + 1), n) = ACCOUNTS
           /\ \A i \in Registered : ListRemove(acct[i].contacts, n) = acct[i].contacts
           /\ \A ch \in DOMAIN chan :
                 LET after == clean_name_from_channels(n).chan[ch] IN
                 /\ after.banned = chan[ch].banned
                 /\ after.kicked = chan[ch].kicked
                 /\ after.muted_to_muter = chan[ch].muted_to_muter


(***************************************************************************)
(* The administrator's `shutdown` command.                                 *)
(***************************************************************************)
\* a running server: every name has an account with password "p"; the first
\* connection is the administrator's, logged in and in its inside menu, and the other
\* connections have not been made yet
InitServer ==
    /\ loop = TRUE
    /\ srvClients = <<1>>
    /\ BLOCKED = <<>>
    /\ ACCOUNTS = [i \in 1..NNames |-> [k |-> NameSeq[i], v |-> i]]
    /\ acct = [i \in 1..NNames |->
                 [NewAccount(i = 1) EXCEPT !.password = "p",
                                           !.online = (i = 1),
                                           !.client = IF i = 1 THEN 1 ELSE 0]]
    /\ CHANNEL_NAMES = <<>>
    /\ NEXT_CHANNEL = 1
    /\ chan = <<>>
    /\ closed = [c \in Clients |-> FALSE]
    /\ cname = [c \in Clients |-> IF c = 1 THEN NameSeq[1] ELSE NoName]
    /\ caccount = [c \in Clients |-> IF c = 1 THEN 1 ELSE 0]
    /\ passed = [c \in Clients |-> c = 1]
    /\ stack = [c \in Clients |->
                  IF c = 1 THEN <<"BanFilter", "OutsideMenu", "InsideMenu">> ELSE <<>>]
    /\ pc = [c \in Clients |-> IF c = 1 THEN "cmd" ELSE "idle"]
    /\ cur = [c \in Clients |-> 0]
    /\ ret = [c \in Clients |-> "None"]
    /\ exiting = [c \in Clients |-> FALSE]
    /\ pend = [c \in Clients |-> NoPend]
    /\ exitCause = [c \in Clients |-> "none"]
    /\ nLines = 0
    /\ client_buffer = [c \in Clients |-> NoBytes]
    /\ order = <<>>
    /\ sent = [c \in Clients |-> <<>>]
    /\ writing = [c \in Clients |-> {}]
    /\ held = [c \in Clients |-> <<>>]
    /\ peer = [c \in Clients |-> "open"]

NextShutdown ==
    \E c \in Clients :
        \/ Accept(c)
        \/ BanFilterHandle(c)
        \/ \E name \in Names : DoLogin(c, name, "p")
        \/ InsideExit(c)
        \/ InsideAdmin(c)
        \/ \E level \in Levels : DoShutdown(c, level)
        \/ DisconnectClients(c)
        \/ DisconnectAccounts(c)
        \/ RecvError(c)
        \/ UnwindMenu(c)
        \/ StackFinally(c)

SpecShutdown == InitServer /\ [][NextShutdown]_vars

\* the step in which `shutdown server` of client c completes
C23_Completes(c) ==
    /\ DisconnectClients(c)
    /\ pend[c].client_array = <<>> /\ pend[c].level = shutdown.server /\ ~closed[c]

\* C23: once `shutdown server` has completed the listener adds no client to the
\* connection list, every client of the list that has no account bound is closed and
\* the command has closed no logged-in client; a second `shutdown server` changes
\* nothing
C23_ShutdownServer ==
    [][/\ ~loop => /\ ~loop'
                   /\ \A x \in Clients : InSeq(x, srvClients') => InSeq(x, srvClients)
       /\ \A c \in Clients :
             /\ C23_Completes(c)
                => \A x \in Clients :
                      (InSeq(x, srvClients') /\ cname'[x] = NoName) => closed'[x]
             /\ (DisconnectClients(c) /\ pend[c].level = shutdown.server)
                => \A x \in Clients : (cname[x] # NoName /\ ~closed[x]) => ~closed'[x]
             /\ (DoShutdown(c, shutdown.server) /\ ~loop) => UNCHANGED vars]_vars


\* the shutdown levels above `server`, called while everybody is logged in
NextLevels ==
    \E c \in Clients :
        \/ InsideAdmin(c)
        \/ \E level \in Levels \ {shutdown.server} : DoShutdown(c, level)
        \/ DisconnectClients(c)
        \/ DisconnectAccounts(c)
        \/ RecvError(c)
        \/ UnwindMenu(c)
        \/ StackFinally(c)

SpecLevels == InitChat /\ [][NextLevels]_vars

\* the step with which a `shutdown users|admin|all` of client c ends
C24_Ends(c) ==
    /\ DisconnectClients(c) \/ DisconnectAccounts(c)
    /\ pend[c].level > shutdown.server
    /\ pc'[c] \notin {"sleepers", "accounts"}

\* C24: when `shutdown users` ends every online account of a non-administrator is
\* disconnected, and it disconnects no administrator; when `shutdown admin` ends
\* every online account but the caller's is disconnected; `shutdown all` has closed
\* the caller's connection too; each of them has shut the listener down
C24_Levels ==
    [][\A c \in Clients :
          /\ C24_Ends(c)
             => /\ ~loop'
                /\ \A id \in Registered :
                      (/\ acct[id].online /\ acct[id].client # 0
                       /\ ShutdownMatches(c, id, pend[c].level))
                      => closed'[acct[id].client]
                /\ pend[c].level = shutdown.all => closed'[c]
          /\ (DisconnectAccounts(c) /\ pend[c].level = shutdown.users)
             => \A x \in Clients :
                   (closed'[x] /\ ~closed[x]) => ~acct[caccount[x]].administrator]_vars


(***************************************************************************)
(* The administrator's `account remove` and `account edit`.                *)
(***************************************************************************)
NextAccounts ==
    \E c \in Clients :
        \/ InsideAdmin(c)
        \/ \E name \in Names : AccountRemove(c, name)
        \/ \E index \in 1..NNames : AccountRemovePick(c, index)
        \/ \E name \in Names : AccountEdit(c, name)
        \/ \E index \in 1..NNames : AccountEditPick(c, index)
        \/ EditorAdmin(c)
        \/ EditorExit(c)
        \/ SubExit(c)
        \/ UnwindMenu(c)
        \/ StackFinally(c)

SpecAccounts == InitChat /\ [][NextAccounts]_vars

\* client c runs `account remove` or `account edit`, with a name or a number
C25_Command(c) ==
    \/ \E name \in Names : AccountRemove(c, name) \/ AccountEdit(c, name)
    \/ \E index \in 1..NNames : AccountRemovePick(c, index) \/ AccountEditPick(c, index)

\* C25: an `account remove` or `account edit` of an administrator leaves the
\* administrator's own account in the registry, and the editor it opens is never
\* one on the administrator's own account
C25_NotSelf ==
    [][\A c \in Clients :
          C25_Command(c)
          => /\ DictHas(ACCOUNTS, cname[c])
                => /\ DictHas(ACCOUNTS', cname[c])
                   /\ DictGet(ACCOUNTS', cname[c]) = DictGet(ACCOUNTS, cname[c])
             /\ Len(stack'[c]) > Len(stack[c])
                => /\ stack'[c][Len(stack'[c])] = "AccountEditor"
                   /\ pend'[c].name # cname[c]
                   /\ pend'[c].acct # caccount[c]]_vars

\* an administrator stands in its console with its own account registered, after it
\* has made another account an administrator's in the editor and then removed it
C25_Witness ==
    \E c \in Clients :
        /\ AtCmd(c, "AdminConsole")
        /\ DictHas(ACCOUNTS, cname[c]) /\ DictGet(ACCOUNTS, cname[c]) = caccount[c]
        /\ \E id \in DOMAIN acct :
              id \notin Registered /\ id # caccount[c] /\ acct[id].administrator

(***************************************************************************)
(* The ways a worker ends.                                                 *)
(***************************************************************************)
\* everybody is logged in and in the inside menu; channel x is ready and empty, and
\* its second user has muted its owner there
InitMuted ==
    /\ loop = TRUE
    /\ srvClients = [c \in Clients |-> c]
    /\ BLOCKED = <<>>
    /\ ACCOUNTS = [i \in 1..NNames |-> [k |-> NameSeq[i], v |-> i]]
    /\ acct = [i \in 1..NNames |->
                 [NewAccount(i = 1) EXCEPT !.password = "p",
                                           !.online = (i \in Clients),
                                           !.client = IF i \in Clients THEN i ELSE 0]]
    /\ CHANNEL_NAMES = <<[k |-> "x", v |-> 1]>>
    /\ NEXT_CHANNEL = 2
    /\ chan = <<[NewChannel("x", NameSeq[1])
                    EXCEPT !.status = "ready",
                           !.muted_to_muter = <<[k |-> NameSeq[1], v |-> <<NameSeq[2]>>]>>]>>
    /\ closed = [c \in Clients |-> FALSE]
    /\ cname = [c \in Clients |-> NameSeq[c]]
    /\ caccount = [c \in Clients |-> c]
    /\ passed = [c \in Clients |-> TRUE]
    /\ stack = [c \in Clients |-> <<"BanFilter", "OutsideMenu", "InsideMenu">>]
    /\ pc = [c \in Clients |-> "cmd"]
    /\ cur = [c \in Clients |-> 0]
    /\ ret = [c \in Clients |-> "None"]
    /\ exiting = [c \in Clients |-> FALSE]
    /\ pend = [c \in Clients |-> NoPend]
    /\ exitCause = [c \in Clients |-> "none"]
    /\ nLines = 0
    /\ client_buffer = [c \in Clients |-> NoBytes]
    /\ order = <<>>
    /\ sent = [c \in Clients |-> <<>>]
    /\ writing = [c \in Clients |-> {}]
    /\ held = [c \in Clients |-> <<>>]
    /\ peer = [c \in Clients |-> "open"]

NextExit ==
    \E c \in Clients :
        \/ InsidePush(c, "AccountOptions")
        \/ OptionsDeleteAccount(c)
        \/ InsideAdmin(c)
        \/ \E name \in Names : AccountRemove(c, name)
        \/ SubExit(c)
        \/ InsideExit(c)
        \/ OutsideExit(c)
        \/ BanFilterHandle(c)
        \/ RecvError(c)
        \/ UnwindMenu(c)
        \/ StackFinally(c)

SpecExit == InitMuted /\ [][NextExit]_vars

\* C26: when the worker of a connection ends, whatever made it end, the client is
\* not in the server's connection list and the account the session is logged in to
\* is not online
C26_WorkerExit ==
    [][\A c \in Clients :
          (pc[c] # "done" /\ pc'[c] = "done")
          => /\ ~InSeq(c, srvClients')
             /\ caccount[c] # 0 => ~acct'[caccount[c]].online]_vars

\* every worker has ended: one after its session had logged out and left the menus,
\* another one by an uncaught error while its session was logged in
C26_Witness ==
    \E c, d \in Clients :
        /\ pc[c] = "done" /\ exitCause[c] = "own" /\ caccount[c] = 0
        /\ pc[d] = "done" /\ exitCause[d] = "error" /\ caccount[d] # 0
        /\ ~acct[caccount[d]].online
        /\ srvClients = <<>>

(***************************************************************************)
(* Client.recv and its buffer.                                             *)
(***************************************************************************)
NextRecv ==
    \E c \in Clients :
        \/ \E chunk \in Chunks : RecvChunk(c, chunk)
        \/ RecvLine(c)
        \/ RecvError(c)
        \/ UnwindMenu(c)
        \/ StackFinally(c)

SpecRecv == InitOutside /\ [][NextRecv]_vars

\* C27: a read closes the connection exactly when it leaves more than 65536 bytes
\* without a CRLF in the buffer; otherwise recv returns the first line with its
\* terminator, keeps the bytes after it, and leaves the connection open
C27_Recv ==
    [][\A c \in Clients :
          /\ \A chunk \in Chunks :
                RecvChunk(c, chunk)
                => (closed'[c] <=> (/\ BufferLen(client_buffer'[c]) > 65536
                                    /\ ~HasLine(client_buffer'[c])))
          /\ RecvLine(c)
             => /\ ~closed'[c]
                /\ RecvText(client_buffer[c]) >= SeparatorLen
                /\ BufferLen(client_buffer'[c])
                      = BufferLen(client_buffer[c]) - RecvText(client_buffer[c])
                /\ client_buffer'[c].rest = client_buffer[c].rest]_vars


\* C28: whoever runs the setup dialogue of a channel is the channel's owner
C28_OwnerSetsUp ==
    \A c \in Clients :
        (Top(c) = "ChannelServer" /\ pc[c] = "setup") => cname[c] = chan[cur[c]].owner


(***************************************************************************)
(* A channel that is reset and set up again.                               *)
(***************************************************************************)
NextReset ==
    \E c \in Clients :
        \/ \E name \in MuteTargets : ChanMuteAdd(c, name)
        \/ ChanAdmin(c)
        \/ AdminHandle(c)
        \/ AdminReset(c)
        \/ AdminExit(c)
        \/ ChanKickedOut(c)
        \/ ChanLeave(c)
        \/ ChanPurge(c)
        \/ ChanDisconnect(c)
        \/ DoChannel(c, "x")
        \/ Dispatch(c)
        \/ SetupChannel(c, "p", 0, 1)
        \/ RunChannel(c)
        \/ Authenticate(c, "p")
        \/ Join(c)

SpecReset == InitInside /\ [][NextReset]_vars

NextOrder ==
    \E c \in Clients :
        \/ Say(c, MaxBroadcasts)
        \/ BroadcastLock(c)
        \/ BroadcastSend(c)

SpecOrder == InitInside /\ [][NextOrder]_vars

\* C30: the lines a client has received from broadcasts are in the order in which
\* those broadcasts took the channel's data lock
C30_LockOrder ==
    \A d \in Clients :
        \A i, j \in 1..Len(sent[d]) :
            i < j => FirstIndex(sent[d][i], order) < FirstIndex(sent[d][j], order)


(***************************************************************************)
(* Concurrent broadcasts, write by write.                                  *)
(***************************************************************************)
NextWrites ==
    \E c \in Clients :
        \/ Say(c, MaxBroadcasts)
        \/ BroadcastLock(c)
        \/ BroadcastWrite(c)
        \/ BroadcastWritten(c)

SpecWrites == InitInside /\ [][NextWrites]_vars

\* C31: at no time are two threads writing to the socket of the same connection
C31_SerialWrites == \A d \in Clients : Cardinality(writing[d]) <= 1


(***************************************************************************)
(* The data locks: OutsideMenu.data_lock guards the account registry,      *)
(* InsideMenu.data_lock the channel registry, and every Account and every  *)
(* ChannelServer has a data_lock of its own.  threading.Lock is not        *)
(* reentrant: a lock is free while no worker holds it.                     *)
(***************************************************************************)
NoLock == [kind |-> "none", id |-> 0]

\* OutsideMenu.data_lock
RegistryLock == [kind |-> "OutsideMenu", id |-> 0]

\* InsideMenu.data_lock
ChannelsLock == [kind |-> "InsideMenu", id |-> 0]

\* Account.data_lock of account object id
AccountLock(id) == [kind |-> "Account", id |-> id]

\* ChannelServer.data_lock of channel object ch
ChannelLock(ch) == [kind |-> "ChannelServer", id |-> ch]

Holds(c, l) == InSeq(l, held[c])

Free(l) == \A c \in Clients : ~Holds(c, l)

NoneHeld == \A c \in Clients : held[c] = <<>>

\* a step of the model that takes and releases its locks within the step runs while
\* no worker is inside a critical section
Outside(A) ==
    /\ NoneHeld
    /\ A

\* ChannelServer.add_mute enters `with self.data_lock`
MuteLock(c, muted) ==
    /\ InLoop(c)
    /\ Free(ChannelLock(cur[c]))
    /\ held' = [held EXCEPT ![c] = <<ChannelLock(cur[c])>>]
    /\ pc' = [pc EXCEPT ![c] = "locked"]
    /\ pend' = [pend EXCEPT ![c].name = muted]
    /\ UNCHANGED <<srvVars, accVars, chVars, cliVars, stack, cur, ret, exiting, exitCause,
                   nLines, client_buffer, order, sent, writing, peer>>

\* ChannelAdmin.do_owner enters `with self.channel.data_lock`; the same owner again
\* leaves it without a look at the registry
OwnerLock(c, new_owner) ==
    /\ AtCmd(c, "ChannelAdmin")
    /\ Free(ChannelLock(cur[c]))
    /\ IF new_owner # chan[cur[c]].owner
       THEN /\ held' = [held EXCEPT ![c] = <<ChannelLock(cur[c])>>]
            /\ pc' = [pc EXCEPT ![c] = "locked"]
            /\ pend' = [pend EXCEPT ![c].name = new_owner]
       ELSE UNCHANGED <<held, pc, pend, peer>>
    /\ UNCHANGED <<srvVars, accVars, chVars, cliVars, stack, cur, ret, exiting, exitCause,
                   nLines, client_buffer, order, sent, writing, peer>>

\* Account.add_contact enters `with self.data_lock`
ContactLock(c, name) ==
    /\ AtCmd(c, "ContactManager")
    /\ ~InSeq(name, acct[caccount[c]].contacts)
    /\ Free(AccountLock(caccount[c]))
    /\ held' = [held EXCEPT ![c] = <<AccountLock(caccount[c])>>]
    /\ pc' = [pc EXCEPT ![c] = "locked"]
    /\ pend' = [pend EXCEPT ![c].name = name]
    /\ UNCHANGED <<srvVars, accVars, chVars, cliVars, stack, cur, ret, exiting, exitCause,
                   nLines, client_buffer, order, sent, writing, peer>>

\* OutsideMenu.account_exists enters `with cls.data_lock`, called by add_mute, do_owner
\* and add_contact inside their own critical sections
ExistsLock(c) ==
    /\ pc[c] = "locked"
    /\ Free(RegistryLock)
    /\ held' = [held EXCEPT ![c] = Append(@, RegistryLock)]
    /\ pc' = [pc EXCEPT ![c] = "exists"]
    /\ UNCHANGED <<srvVars, accVars, chVars, cliVars, stack, cur, ret, exiting, pend,
                   exitCause, nLines, client_buffer, order, sent, writing, peer>>

\* account_exists returns and the caller finishes its critical section
ExistsUnlock(c) ==
    /\ pc[c] = "exists"
    /\ held' = [held EXCEPT ![c] = <<>>]
    /\ pend' = [pend EXCEPT ![c] = NoPend]
    /\ pc' = [pc EXCEPT ![c] = IF Top(c) = "ChannelServer" THEN "loop" ELSE "cmd"]
    /\ IF Top(c) = "ChannelServer"
       THEN /\ chan' = [chan EXCEPT ![cur[c]].muted_to_muter =
                                        add_mute(@, pend[c].name, cname[c])]
            /\ UNCHANGED acct
       ELSE IF Top(c) = "ChannelAdmin"
       THEN /\ chan' = [chan EXCEPT ![cur[c]].owner =
                            IF account_exists(pend[c].name) THEN pend[c].name ELSE @]
            /\ UNCHANGED acct
       ELSE /\ acct' = [acct EXCEPT ![caccount[c]].contacts =
                            IF account_exists(pend[c].name) THEN Append(@, pend[c].name)
                            ELSE @]
            /\ UNCHANGED chan
    /\ UNCHANGED <<srvVars, ACCOUNTS, CHANNEL_NAMES, NEXT_CHANNEL, cliVars, stack, cur, ret,
                   exiting, exitCause, nLines, client_buffer, order, sent, writing, peer>>

\* `:mute add` and the channel admin's `owner`, lock by lock
NextChannelLocks ==
    \E c \in Clients :
        \/ \E muted \in Names : MuteLock(c, muted)
        \/ \E new_owner \in Names : OwnerLock(c, new_owner)
        \/ ExistsLock(c)
        \/ ExistsUnlock(c)
        \/ Outside(ChanAdmin(c))
        \/ Outside(ChanLeave(c))
        \/ Outside(ChanPurge(c))
        \/ Outside(ChanDisconnect(c))
        \/ Outside(AdminHandle(c))
        \/ Outside(AdminExit(c))

SpecChannelLocks == InitInside /\ [][NextChannelLocks]_vars

\* C32: no worker acquires the lock of the account registry while it holds the data
\* lock of a channel
C32_RegistryNotUnderChannel ==
    \A c \in Clients :
        \A i \in 1..Len(held[c]) :
            held[c][i] = RegistryLock =>
                \A j \in 1..(i - 1) : held[c][j].kind # "ChannelServer"


\* OutsideMenu.delete_account enters `with cls.data_lock` and unbinds the name
CascadeLock(c) ==
    /\ AtCmd(c, "AccountOptions")
    /\ Free(RegistryLock)
    /\ held' = [held EXCEPT ![c] = <<RegistryLock>>]
    /\ ACCOUNTS' = DeletedACCOUNTS(cname[c])
    /\ pend' = [pend EXCEPT ![c].accounts =
                    IF DictHas(ACCOUNTS, cname[c])
                    THEN DictValues(DeletedACCOUNTS(cname[c])) ELSE <<>>]
    /\ pc' = [pc EXCEPT ![c] = "cascade"]
    /\ UNCHANGED <<srvVars, acct, chVars, cliVars, stack, cur, ret, exiting, exitCause,
                   nLines, client_buffer, order, sent, writing, peer>>

\* one turn of the loop of delete_account: `with account.data_lock`, the name leaves
\* the contacts of that account
CascadeAccount(c) ==
    /\ pc[c] = "cascade"
    /\ pend[c].accounts # <<>>
    /\ Free(AccountLock(Head(pend[c].accounts)))
    /\ acct' = [acct EXCEPT ![Head(pend[c].accounts)].contacts = ListRemove(@, cname[c])]
    /\ pend' = [pend EXCEPT ![c].accounts = Tail(@)]
    /\ UNCHANGED <<srvVars, ACCOUNTS, chVars, cliVars, stack, pc, cur, ret, exiting,
                   exitCause, obsVars>>

\* the loop is over: the registry lock is released, clean_name_from_channels runs and
\* do_delete_account closes the connection
CascadeDone(c) ==
    /\ pc[c] = "cascade"
    /\ pend[c].accounts = <<>>
    /\ held' = [held EXCEPT ![c] = <<>>]
    /\ chan' = clean_name_from_channels(cname[c]).chan
    /\ IF DeleteRaises(cname[c])
       THEN Raise(c, "error") /\ UNCHANGED closed
       ELSE Raise(c, "own") /\ closed' = [closed EXCEPT ![c] = TRUE]
    /\ UNCHANGED <<srvVars, accVars, CHANNEL_NAMES, NEXT_CHANNEL, cname, caccount, passed,
                   stack, cur, ret, pend, nLines, client_buffer, order, sent, writing, peer>>

\* the lock worker c is about to acquire
Wants(c) ==
    IF pc[c] = "locked" THEN RegistryLock
    ELSE IF pc[c] = "cascade" /\ pend[c].accounts # <<>>
    THEN AccountLock(Head(pend[c].accounts))
    ELSE IF pc[c] = "connect" THEN ChannelLock(cur[c])
    ELSE IF pc[c] = "unregister" THEN ChannelsLock
    ELSE NoLock

\* two workers each wait for a lock the other holds
Deadlocked(a, b) ==
    /\ a # b
    /\ Holds(b, Wants(a))
    /\ Holds(a, Wants(b))

\* the contact manager's `add` and the deletion of an account, lock by lock
NextAccountLocks ==
    \E c \in Clients :
        \/ Outside(InsidePush(c, "ContactManager"))
        \/ Outside(InsidePush(c, "AccountOptions"))
        \/ Outside(SubExit(c))
        \/ \E name \in Names : ContactLock(c, name)
        \/ ExistsLock(c)
        \/ ExistsUnlock(c)
        \/ CascadeLock(c)
        \/ CascadeAccount(c)
        \/ CascadeDone(c)
        \/ Outside(StackFinally(c))

SpecAccountLocks == InitChat /\ [][NextAccountLocks]_vars

\* C33: the registry lock is never acquired by a worker that holds the data lock of
\* an account, and the deletion cascade never waits for the lock of an account that
\* is held by a worker waiting for the registry lock
C33_RegistryBeforeAccount ==
    /\ \A c \in Clients :
           \A i \in 1..Len(held[c]) :
               held[c][i] = RegistryLock =>
                   \A j \in 1..(i - 1) : held[c][j].kind # "Account"
    /\ \A a, b \in Clients : pc[a] = "cascade" => ~Deadlocked(a, b)

\* the cascade of a's deletion waits for the lock of b's account while b, inside
\* add_contact, waits for the registry lock
C33_CascadeStuck == \E a, b \in Clients : pc[a] = "cascade" /\ Deadlocked(a, b)


(***************************************************************************)
(* The peer ends the connection while the worker waits in Client.recv.     *)
(***************************************************************************)
\* the peer resets the connection: socket.recv raises socket.error from now on
PeerReset(c) ==
    /\ peer[c] = "open" /\ pc[c] # "done"
    /\ peer' = [peer EXCEPT ![c] = "error"]
    /\ UNCHANGED <<srvVars, accVars, chVars, cliVars, stkVars, nLines, client_buffer, order,
                   sent, writing, held>>

\* the peer shuts its side down: socket.recv returns b'' from now on
PeerShutdown(c) ==
    /\ peer[c] = "open" /\ pc[c] # "done"
    /\ peer' = [peer EXCEPT ![c] = "eof"]
    /\ UNCHANGED <<srvVars, accVars, chVars, cliVars, stkVars, nLines, client_buffer, order,
                   sent, writing, held>>

\* Client.recv, a turn of its loop in which socket.recv raises: self.close()
RecvFails(c) ==
    /\ InRecv(c)
    /\ ~HasLine(client_buffer[c])
    /\ peer[c] = "error"
    /\ closed' = [closed EXCEPT ![c] = TRUE]
    /\ UNCHANGED <<srvVars, accVars, chVars, cname, caccount, passed, stkVars, obsVars>>

\* Client.recv, a turn of its loop in which socket.recv returns b'': the buffer is
\* as long as before, holds no separator, and the loop takes its next turn
RecvNothing(c) ==
    /\ InRecv(c)
    /\ ~HasLine(client_buffer[c])
    /\ peer[c] = "eof"
    /\ client_buffer' = [client_buffer EXCEPT ![c] = Extend(@, [lines |-> <<>>, rest |-> 0])]
    /\ closed' = [closed EXCEPT ![c] = BufferLen(client_buffer'[c]) > BUFF_SIZE]
    /\ UNCHANGED <<srvVars, accVars, chVars, cname, caccount, passed, stkVars, nLines, order,
                   sent, writing, held, peer>>

\* the steps worker c takes without a line from its user
WorkerStep(c) ==
    \/ RecvFails(c)
    \/ RecvNothing(c)
    \/ UnwindLoop(c)
    \/ UnwindMenu(c)
    \/ ChanLeave(c)
    \/ ChanPurge(c)
    \/ ChanDisconnect(c)
    \/ StackFinally(c)

NextPeer ==
    \E c \in Clients :
        \/ PeerReset(c)
        \/ PeerShutdown(c)
        \/ ChanExit(c)
        \/ WorkerStep(c)

\* every worker thread is scheduled again and again; users need not type
SpecPeer ==
    /\ InitInside
    /\ [][NextPeer]_vars
    /\ \A c \in Clients : WF_vars(WorkerStep(c))

\* the worker of client c is gone from the server, the channels and its account
Unwound(c) ==
    /\ ~InSeq(c, srvClients)
    /\ \A ch \in 1..Len(chan) : ~InSeq(c, chan[ch].connected_clients)
    /\ caccount[c] # 0 => ~acct[caccount[c]].online

\* C34: once the peer has ended the connection of a worker that waits in recv, the
\* worker eventually unwinds
C34_Unwinds ==
    \A c \in Clients : (peer[c] # "open" /\ InRecv(c)) ~> Unwound(c)


(***************************************************************************)
(* The ban list: AdminConsole's `ban add` and `ban remove`, BanFilter.     *)
(***************************************************************************)
\* what an administrator types after `ban add`: a host name as the resolver spells
\* it, the same in lower case, an alias, a numeric address
Addrs == {"Bravo", "bravo", "Guest", AddressOf(2)}

\* AdminConsole.ban_add
BanAdd(c, addr) ==
    /\ AtCmd(c, "AdminConsole")
    /\ BLOCKED' = IF InSeq(addr, BLOCKED) THEN BLOCKED ELSE Append(BLOCKED, addr)
    /\ UNCHANGED <<loop, srvClients, accVars, chVars, cliVars, stkVars, obsVars>>

\* AdminConsole.ban_remove with an argument
BanRemove(c, addr) ==
    /\ AtCmd(c, "AdminConsole")
    /\ BLOCKED' = ListRemove(BLOCKED, addr)
    /\ UNCHANGED <<loop, srvClients, accVars, chVars, cliVars, stkVars, obsVars>>

NextBan ==
    \E c \in Clients :
        \/ InsideAdmin(c)
        \/ SubExit(c)
        \/ \E addr \in Addrs : BanAdd(c, addr)
        \/ \E addr \in Addrs : BanRemove(c, addr)
        \/ Accept(c)
        \/ BanFilterHandle(c)
        \/ OutsideExit(c)
        \/ StackFinally(c)

SpecBan == InitServer /\ [][NextBan]_vars

\* the host name, an alias or the numeric address of the connection is in the list
InBanList(c) ==
    \/ InSeq(HostOf(c), BLOCKED)
    \/ \E i \in 1..Len(AliasesOf(c)) : InSeq(AliasesOf(c)[i], BLOCKED)
    \/ InSeq(AddressOf(c), BLOCKED)

\* C35: the filter closes a connection whose host name, alias or address is in the
\* ban list without pushing the outside menu, and on its second pass (the outside
\* menu popped) it closes the connection and the worker ends
C35_Filter ==
    [][\A c \in Clients :
          BanFilterHandle(c) =>
             /\ (~passed[c] /\ InBanList(c)) => (closed'[c] /\ stack'[c] = <<"BanFilter">>)
             /\ passed[c] => (closed'[c] /\ pc'[c] = "finally")]_vars


\* entering a channel that has a password while its owner talks
NextEnter ==
    \E c \in Clients :
        \/ DoChannel(c, "x")
        \/ Dispatch(c)
        \/ SetupChannel(c, "p", 0, 1)
        \/ RunChannel(c)
        \/ \E word \in {"p", "q"} : Authenticate(c, word)
        \/ Join(c)
        \/ Say(c, MaxBroadcasts)
        \/ BroadcastLock(c)
        \/ BroadcastSend(c)
        \/ ChanExit(c)
        \/ ChanLeave(c)
        \/ ChanPurge(c)
        \/ ChanDisconnect(c)

SpecEnter == InitChat /\ [][NextEnter]_vars

\* client d has entered ChannelServer.handle of channel ch and has not yet passed
\* the status test, the ban test and the password prompt
NotYetIn(d, ch) ==
    /\ Top(d) = "ChannelServer"
    /\ cur[d] = ch
    /\ pc[d] \in {"enter", "run_channel", "auth"}

\* C36: a broadcast of a channel delivers no line to a client that has not yet
\* passed the ban test and the password prompt of that channel
C36_OnlyInside ==
    [][\A c, d \in Clients :
          (BroadcastSend(c) /\ NotYetIn(d, cur[c])) => sent'[d] = sent[d]]_vars


\* kicks, bans and the admin's `close` against the departures from a channel
NextKick ==
    \E c \in Clients :
        \/ \E name \in Names : ChanKick(c, name)
        \/ \E name \in Names : ChanBanAdd(c, name)
        \/ ChanAdmin(c)
        \/ AdminHandle(c)
        \/ AdminClose(c)
        \/ AdminExit(c)
        \/ ChanExit(c)
        \/ ChanKickedOut(c)
        \/ ChanLeave(c)
        \/ ChanPurge(c)
        \/ ChanDisconnect(c)
        \/ DoChannel(c, "x")
        \/ Dispatch(c)
        \/ RunChannel(c)
        \/ Join(c)

SpecKick == InitInside /\ [][NextKick]_vars

\* C37: every name in `kicked` of a channel is the name of a client that is in
\* connected_clients of that channel
C37_KickedConnected ==
    \A ch \in 1..Len(chan) :
        \A i \in 1..Len(chan[ch].kicked) :
            \E k \in 1..Len(chan[ch].connected_clients) :
                cname[chan[ch].connected_clients[k]] = chan[ch].kicked[i]

\* the user has left for the inside menu and a kick issued during the stay is still
\* in `kicked` of a channel
C37_StaleKick ==
    \E c \in Clients :
        /\ Top(c) = "InsideMenu"
        /\ \E ch \in 1..Len(chan) : InSeq(cname[c], chan[ch].kicked)


\* InsideMenu.do_channel enters `with self.data_lock`: the channel is looked up or
\* created, and channel.connect is called inside the critical section
OpenLock(c, name) ==
    /\ AtCmd(c, "InsideMenu")
    /\ name # "" /\ TokenCount(name) = 1
    /\ Free(ChannelsLock)
    /\ IF DictHas(CHANNEL_NAMES, name)
       THEN /\ cur' = [cur EXCEPT ![c] = DictGet(CHANNEL_NAMES, name)]
            /\ UNCHANGED chVars
       ELSE /\ NEXT_CHANNEL <= MaxChannels
            /\ cur' = [cur EXCEPT ![c] = NEXT_CHANNEL]
            /\ chan' = Append(chan, NewChannel(name, cname[c]))
            /\ CHANNEL_NAMES' = DictPut(CHANNEL_NAMES, name, NEXT_CHANNEL)
            /\ NEXT_CHANNEL' = NEXT_CHANNEL + 1
    /\ held' = [held EXCEPT ![c] = <<ChannelsLock>>]
    /\ pc' = [pc EXCEPT ![c] = "connect"]
    /\ UNCHANGED <<srvVars, accVars, cliVars, stack, ret, exiting, pend, exitCause, nLines,
                   client_buffer, order, sent, writing, peer>>

\* ChannelServer.connect enters `with self.data_lock` of the channel; do_channel then
\* returns the channel and both locks are free again
ConnectLock(c) ==
    /\ pc[c] = "connect"
    /\ Free(ChannelLock(cur[c]))
    /\ chan' = [chan EXCEPT ![cur[c]].connected_clients = Connected(@, c)]
    /\ held' = [held EXCEPT ![c] = <<>>]
    /\ Push(c, "ChannelServer")
    /\ UNCHANGED <<srvVars, accVars, CHANNEL_NAMES, NEXT_CHANNEL, cliVars, cur, ret, exiting,
                   pend, exitCause, nLines, client_buffer, order, sent, writing, peer>>

\* ChannelAdmin.do_delete (new_name "") and try_rename enter `with
\* self.channel.data_lock`; a channel without a name leaves the registry alone
UnregisterLock(c, new_name) ==
    /\ AtCmd(c, "ChannelAdmin")
    /\ TokenCount(new_name) <= 1
    /\ Free(ChannelLock(cur[c]))
    /\ IF chan[cur[c]].channel_name = NoChannelName
       THEN UNCHANGED <<held, pc, pend>>
       ELSE /\ held' = [held EXCEPT ![c] = <<ChannelLock(cur[c])>>]
            /\ pc' = [pc EXCEPT ![c] = "unregister"]
            /\ pend' = [pend EXCEPT ![c].name = new_name]
    /\ UNCHANGED <<srvVars, accVars, chVars, cliVars, stack, cur, ret, exiting, exitCause,
                   nLines, client_buffer, order, sent, writing, peer>>

\* InsideMenu.delete_channel or rename_channel enters `with cls.data_lock`, called
\* inside the critical section of the channel; then both locks are released
Unregister(c) ==
    LET ch == cur[c]
        old_name == chan[ch].channel_name
        new_name == pend[c].name IN
    /\ pc[c] = "unregister"
    /\ Free(ChannelsLock)
    /\ IF new_name = ""
       THEN /\ CHANNEL_NAMES' = delete_channel(old_name)
            /\ chan' = [chan EXCEPT ![ch].channel_name = NoChannelName]
       ELSE /\ CHANNEL_NAMES' = rename_channel(old_name, new_name)
            /\ chan' = [chan EXCEPT ![ch].channel_name =
                            IF rename_channel(old_name, new_name) # CHANNEL_NAMES
                            THEN new_name ELSE @]
    /\ held' = [held EXCEPT ![c] = <<>>]
    /\ pc' = [pc EXCEPT ![c] = "cmd"]
    /\ pend' = [pend EXCEPT ![c] = NoPend]
    /\ UNCHANGED <<srvVars, accVars, NEXT_CHANNEL, cliVars, stack, cur, ret, exiting,
                   exitCause, nLines, client_buffer, order, sent, writing, peer>>

\* `channel <name>` against the channel admin's `delete` and `rename`, lock by lock
NextRegistryLocks ==
    \E c \in Clients :
        \/ \E name \in {"x", "y"} : OpenLock(c, name)
        \/ ConnectLock(c)
        \/ \E new_name \in {"", "y"} : UnregisterLock(c, new_name)
        \/ Unregister(c)
        \/ Outside(Dispatch(c))
        \/ Outside(SetupChannel(c, "", NoSize, DefaultReplaySize))
        \/ Outside(RunChannel(c))
        \/ Outside(Join(c))
        \/ Outside(ChanAdmin(c))
        \/ Outside(ChanExit(c))
        \/ Outside(ChanLeave(c))
        \/ Outside(ChanPurge(c))
        \/ Outside(ChanDisconnect(c))
        \/ Outside(AdminHandle(c))
        \/ Outside(AdminExit(c))

SpecRegistryLocks == InitInside /\ [][NextRegistryLocks]_vars

\* C38: no two workers each wait for a lock that the other holds
C38_NoDeadlock == \A a, b \in Clients : ~Deadlocked(a, b)


\* C39: a client that has the admin console or the account editor on its stack is
\* logged in to an account whose administrator flag is true
C39_AdminOnly ==
    \A c \in Clients :
        (/\ ~closed[c] /\ ~exiting[c]
         /\ \/ InSeq("AdminConsole", stack[c])
            \/ InSeq("AccountEditor", stack[c]))
            => /\ caccount[c] # 0
               /\ acct[caccount[c]].administrator


\* C40: while accounts are only registered (none deleted, no administrator flag
\* toggled), a registry that is not empty holds an administrator
C40_SomeAdministrator ==
    ACCOUNTS # <<>> => \E i \in 1..Len(ACCOUNTS) : acct[ACCOUNTS[i].v].administrator

====
